---- MODULE Spec2Model ----
(***************************************************************************)
(* proxy-manager: the mitmproxy forwarder (ForwarderAddon.request with its *)
(* retry / fallback loop, the blacklist gate and the rate-limit semaphore), *)
(* the older single-attempt addon (mitm_forwarder_addon.request), the      *)
(* post_activity tasks and the blacklist cache (BlacklistCache).           *)
(***************************************************************************)
EXTENDS Integers, Sequences, FiniteSets, TLC

\* ------------------------------------------------------------------ bounds
\* Largest settings.retry_count the model draws.
MaxRetry == 1
\* Largest settings.max_concurrent_requests the model draws.
MaxSlots == 2
\* Largest settings.blacklist_refresh_seconds the model draws.
MaxTtl == 2
\* How far the clock runs.
MaxTicks == 3

\* The round-robin counter is followed up to this value.
MaxSelections == 4

\* Largest ProxyTester.max_workers the model draws.
MaxWorkers == 2

\* How many probe results are applied to one proxy.
MaxProbes == 2

\* ------------------------------------------------------------ input domains
Requests == {"r1", "r2"}
\* Python None, for the optional values: <<>> is None, <<x>> is x.
None == <<>>
Some(x) == <<x>>
The(opt) == opt[1]
ClientAuthValues == {"", "Bearer client"}
DefaultJwtValues == {"", "Bearer default"}
PatFacebook == "^.*facebook\\.com.*$"
PatTwitter == "^.*twitter\\.com.*$"
PatInvalid == "[invalid regex"
UrlFacebook == "https://facebook.com/x"
UrlExample == "https://example.com/"
Urls == {UrlFacebook, UrlExample}
UrlBoth == "https://twitter.com/facebook.com"
\* The urls is_blacklisted is called with on its own ("" is `not url`).
CacheUrls == {"", UrlFacebook, UrlBoth, UrlExample}
\* The rule lists (by pattern) the blacklist endpoint serves.
RuleSets ==
    {<<>>, <<PatFacebook>>, <<PatTwitter, PatFacebook>>,
     <<PatInvalid, PatFacebook>>, <<PatFacebook, PatInvalid, PatTwitter>>}
\* Answers of the blacklist endpoint as fetch_blacklist sees them.
FetchReplies ==
    {[status |-> "200", rules |-> rs] : rs \in RuleSets} \cup
    {[status |-> st, rules |-> <<>>] :
        st \in {"500", "TimeoutException", "RequestError", "Exception"}}
\* The refresh() calls in flight: tasks of running(), the loop, ensure_fresh.
RefreshCalls == {"t1", "t2"}
\* time.time() when the addon is loaded: epoch seconds, beyond any TTL.
StartTime == MaxTtl + 1
\* What fetch_blacklist can hand to refresh(): [] on any failure, else rules.
FetchResults == {<<>>, <<PatFacebook>>, <<PatTwitter>>}
PrimaryStrategies == {"best"}
FallbackStrategies == {"best", "health_score"}
\* Answers of the proxy-issuing endpoint as get_proxy sees them.
ProxyEndpointReplies ==
    {[status |-> "200", id |-> 1]} \cup
    {[status |-> s, id |-> 0] :
        s \in {"403", "404", "500", "TimeoutException", "RequestError", "Exception"}}
\* Status codes an upstream server answers with (relayed as they are).
UpstreamStatus == {200, 502}
\* What client.post does inside post_activity: an answer or an exception.
PostOutcomes == {"201", "500", "TimeoutException", "Exception"}
ConnectionErrors == {"TimeoutException", "ProxyError", "RequestError"}
UpstreamErrors == ConnectionErrors \cup {"Exception"}

VARIABLES
    settings,       \* config.Settings: the fields the forwarder reads
    handler,        \* which request hook serves: "ForwarderAddon" or "addon"
    semaphore,      \* asyncio.Semaphore._value
    patterns,       \* BlacklistCache._patterns (compiled, by pattern string)
    pattern_data,   \* BlacklistCache._pattern_data
    flows,          \* the inbound flows mitmproxy hands to the hook
    req,            \* per inbound flow: position in request() and its locals
    delivered,      \* per inbound flow: its post_activity tasks that ended
    last_refresh,   \* BlacklistCache._last_refresh
    now,            \* time.time()
    lock,           \* BlacklistCache._lock: "free" or its holder
    origin,         \* which refresh() wrote _patterns / _pattern_data
    refreshing,     \* per refresh() call: its position and locals
    check,          \* the is_blacklisted call in progress and its locals
    auto,           \* start_auto_refresh's task and the refresh_loop task
    proxies,        \* the proxy table: per Proxy.id its health and use fields
    round_robin_index,  \* RotationManager.round_robin_index
    rotation_lock,  \* RotationManager.lock: "free" or its holder
    selecting,      \* per caller of GET /proxy: position and locals
    served,         \* what the round_robin selections returned, in order
    max_workers,    \* ProxyTester.max_workers
    executor,       \* per ProxyTester: its pool's queue and busy threads
    futures,        \* per ProxyTester and submitted call: its Future
    job,            \* health_check_job: position and locals
    testing,        \* per caller of POST /proxies/{id}/test: its locals
    applied,        \* per proxy: what the probe results applied so far add up to
    blacklist_table,    \* the manager's blacklist table, newest rule first
    checker_patterns,   \* BlacklistChecker._patterns
    checker_compiled,   \* BlacklistChecker._compiled_patterns
    gating,         \* per caller: its locals in load_patterns and check_url
    requests_per_minute,    \* RateLimiter.requests_per_minute
    user_requests,  \* RateLimiter._requests: per user, the admitted timestamps kept
    last_cleanup,   \* RateLimiter._last_cleanup
    clock,          \* time.time() in the manager's process
    limiting,       \* per caller: its locals in check_rate_limit
    admitted        \* per user: the time of every request admitted so far

\* What only the proxy manager's selections touch.
selector == <<proxies, round_robin_index, rotation_lock, selecting, served>>

\* What only the proxy tester and its callers touch.
prober == <<max_workers, executor, futures, job, testing, applied>>

\* What only the manager's blacklist checker and its callers touch.
checker == <<blacklist_table, checker_patterns, checker_compiled, gating>>

\* What only the rate limiter and its callers touch.
limiter ==
    <<requests_per_minute, user_requests, last_cleanup, clock, limiting,
      admitted>>

\* What guards the manager's routes.
guards == <<checker, limiter>>

\* The proxy manager's state besides the selector's.
backend == <<prober, guards>>

\* What only the blacklist cache's own steps touch.
cacheSteps == <<now, lock, origin, refreshing, check>>

vars ==
    <<settings, handler, semaphore, patterns, pattern_data, flows, req,
      delivered, last_refresh, cacheSteps, auto, selector, backend>>

\* --------------------------------------------------------- blacklist cache
\* re.search(pattern, url, re.IGNORECASE) on the patterns and urls drawn.
Search(p, url) ==
    \/ p = PatFacebook /\ url \in {UrlFacebook, UrlBoth}
    \/ p = PatTwitter /\ url = UrlBoth

\* re.compile(pattern_str) succeeds; rules with no pattern are skipped.
Compiles(pattern_str) == pattern_str # "" /\ pattern_str # PatInvalid

CompilePatterns(rules) == SelectSeq(rules, Compiles)

\* fetch_blacklist: the rules on a 200 answer, [] on anything else.
FetchBlacklist(reply) == IF reply.status = "200" THEN reply.rules ELSE <<>>

ShouldSwapAlways(rules) == TRUE

\* refresh(): `if rules:`
ShouldSwap(rules) == rules # <<>>

NeedsRefreshNever(t, last) == FALSE

NeedsRefreshAlways(t, last) == TRUE

\* needs_refresh() at time t
NeedsRefresh(t, last) == t - last >= settings.blacklist_refresh_seconds

LockIgnored(l) == TRUE

\* `with self._lock:` goes through when nobody holds the lock.
LockFree(l) == l = "free"

IsBlacklistedNever(pats, data, url) == [matched |-> FALSE, pattern |-> None]

IsBlacklisted(pats, data, url) ==
    IF url = ""
    THEN [matched |-> FALSE, pattern |-> None]
    ELSE LET hits == {i \in 1..Len(pats) : Search(pats[i], url)}
         IN IF hits = {}
            THEN [matched |-> FALSE, pattern |-> None]
            ELSE LET i == CHOOSE j \in hits : \A k \in hits : j <= k
                 IN [matched |-> TRUE,
                     pattern |-> IF i <= Len(data) THEN data[i] ELSE pats[i]]

\* -------------------------------------------------------------- proxy client
GetProxy(user_jwt, reply) ==
    IF user_jwt = ""
    THEN None
    ELSE IF reply.status = "200"
         THEN Some([proxy_id |-> reply.id])
         ELSE None

PostActivityRaises(out) ==
    [raised |-> out \in {"TimeoutException", "Exception"}, stored |-> out = "201"]

\* post_activity: one POST; the answer is not looked at and an exception is
\* logged at debug level. `stored` is whether the backend kept the record.
PostActivity(out) == [raised |-> FALSE, stored |-> out = "201"]

\* --------------------------------------------------------------- responses
NoResponse == [kind |-> "none", status |-> 0]
Synthetic(code) == [kind |-> "synthetic", status |-> code]
Relayed(code) == [kind |-> "relay", status |-> code]

NewRequest ==
    [pc |-> "idle", client_auth |-> "", target_url |-> "", user_jwt |-> "",
     ensure_called |-> FALSE, waited |-> FALSE,
     acquires |-> 0, releases |-> 0,
     site |-> "primary", attempt |-> 0, calls |-> <<>>,
     proxy_info |-> None, last_proxy_info |-> None,
     all_timeout |-> TRUE,
     response |-> NoResponse, activity |-> <<>>]

LogActivityTwice(q, code, info) ==
    [q EXCEPT !.activity = @ \o <<[status_code |-> code, proxy_id |-> None],
                                  [status_code |-> code, proxy_id |-> None]>>]

\* A fire-and-forget post_activity task is created with this payload.
LogActivity(q, code, info) ==
    [q EXCEPT !.activity = Append(@, [status_code |-> code,
                                      proxy_id |-> IF info = None THEN None
                                                   ELSE Some(The(info).proxy_id)])]

\* The user JWT the handlers work with.
UserJwt(client_auth) ==
    IF client_auth # "" THEN client_auth ELSE settings.default_user_jwt

AuthRejected(user_jwt) == user_jwt = "" /\ settings.require_user_jwt

\* --------------------------------------------------- ForwarderAddon.request
\* for attempt in range(retry_count + 1)
HasMoreAttemptsOff(attempt) == attempt + 1 < settings.retry_count + 2

HasMoreAttemptsShort(attempt) == attempt + 1 < settings.retry_count

HasMoreAttempts(attempt) == attempt + 1 < settings.retry_count + 1

\* if proxy_info is None: break
AbandonPrimaryNever(info) == FALSE

AbandonPrimary(info) == info = None

\* if not success and fallback_strategy != strategy
ShouldFallbackAlways(success) == ~success

ShouldFallback(success) ==
    ~success /\ settings.fallback_strategy # settings.rotation_strategy

\* _forward_request_with_proxy starts: get_proxy is called and awaited.
IssueCall(q, strategy, site) ==
    [q EXCEPT !.pc = "get_proxy", !.site = site, !.proxy_info = None,
              !.calls = Append(@, [strategy |-> strategy, site |-> site,
                                   user_jwt |-> q.user_jwt])]

LeaveHolding(q) == [q EXCEPT !.pc = "done"]

\* Leaving the `async with` block releases the slot.
Leave(q) == [q EXCEPT !.pc = "done", !.releases = @ + 1]

AllFailedUnset(q) == Leave(LogActivity(q, 502, q.last_proxy_info))

AllFailed(q) ==
    Leave(LogActivity([q EXCEPT !.response = Synthetic(502)], 502,
                      q.last_proxy_info))

FailedAttemptGivesUp(q, info, out) ==
    AllFailed([q EXCEPT !.last_proxy_info = info, !.proxy_info = None,
                        !.all_timeout = @ /\ out = "TimeoutException"])

\* An attempt returned (False, info): the rest of the loop body and what
\* follows the loop.
FailedAttempt(q, info, out) ==
    LET q1 == [q EXCEPT !.last_proxy_info = info, !.proxy_info = None,
                        !.all_timeout = @ /\ out = "TimeoutException"]
    IN IF q.site = "primary" /\ ~AbandonPrimary(info) /\ HasMoreAttempts(q.attempt)
       THEN IssueCall([q1 EXCEPT !.attempt = @ + 1],
                      settings.rotation_strategy, "primary")
       ELSE IF q.site = "primary" /\ ShouldFallback(FALSE)
            THEN IssueCall(q1, settings.fallback_strategy, "fallback")
            ELSE AllFailed(q1)

\* An attempt returned (True, info): response set, activity logged, return.
SucceededAttempt(q, code) ==
    Leave(LogActivity([q EXCEPT !.response = Relayed(code),
                                !.proxy_info = None],
                      code, q.proxy_info))

CanAcquireAlways(value) == TRUE

\* asyncio.Semaphore: acquire() goes through while a slot is free.
CanAcquire(value) == value > 0

\* Lines 167-225: the credential gate, ensure_fresh and the blacklist gate.
Gate(q, auth, url) ==
    LET jwt == UserJwt(auth)
        q0 == [q EXCEPT !.client_auth = auth, !.target_url = url, !.user_jwt = jwt]
    IN IF AuthRejected(jwt)
       THEN LogActivity([q0 EXCEPT !.pc = "done", !.response = Synthetic(401)],
                        401, None)
       ELSE LET q1 == [q0 EXCEPT !.ensure_called = TRUE]
            IN IF IsBlacklisted(patterns, pattern_data, url).matched
               THEN LogActivity([q1 EXCEPT !.pc = "done",
                                           !.response = Synthetic(403)],
                                403, None)
               \* reaches `async with self.semaphore`: acquire() suspends the
               \* flow when no slot is free
               ELSE [q1 EXCEPT !.pc = "semaphore",
                               !.waited = ~CanAcquire(semaphore)]

\* The refresh() calls not yet made.
IdleCalls == {t \in RefreshCalls : refreshing[t].pc = "idle"}

\* await ensure_fresh() on the request path: when needs_refresh() says so a
\* refresh() task is created, and the hook goes on without awaiting it.
EnsureFreshTask(called) ==
    IF called /\ NeedsRefresh(now, last_refresh)
    THEN [refreshing EXCEPT ![CHOOSE t \in IdleCalls : TRUE] =
             [@ EXCEPT !.pc = "fetch", !.by = "ensure_fresh"]]
    ELSE refreshing

Request(r) ==
    /\ handler = "ForwarderAddon"
    /\ r \in flows
    /\ req[r].pc = "idle"
    /\ IdleCalls # {}
    /\ \E auth \in ClientAuthValues, url \in Urls :
          req' = [req EXCEPT ![r] = Gate(@, auth, url)]
    /\ refreshing' = EnsureFreshTask(req'[r].ensure_called)
    /\ UNCHANGED <<settings, handler, semaphore, patterns, pattern_data, flows, delivered,
                   last_refresh, now, lock, origin, check, auto, selector, backend>>

AcquireSemaphore(r) ==
    /\ handler = "ForwarderAddon"
    /\ req[r].pc = "semaphore"
    /\ CanAcquire(semaphore)
    /\ semaphore' = semaphore - 1
    /\ req' = [req EXCEPT ![r] =
                 IssueCall([@ EXCEPT !.acquires = @ + 1],
                           settings.rotation_strategy, "primary")]
    /\ UNCHANGED <<settings, handler, patterns, pattern_data, flows, delivered,
                   last_refresh, cacheSteps, auto, selector, backend>>

ReleasedNever(r) == 0

\* The slots the step gives back: one when the flow left the block.
Released(r) == req'[r].releases - req[r].releases

GetProxyReturns(r) ==
    /\ handler = "ForwarderAddon"
    /\ req[r].pc = "get_proxy"
    /\ \E reply \in ProxyEndpointReplies :
          LET info == GetProxy(req[r].user_jwt, reply)
          IN req' = [req EXCEPT ![r] =
                       IF info = None
                       THEN FailedAttempt(@, None, "no_proxy")
                       ELSE [@ EXCEPT !.pc = "upstream", !.proxy_info = info]]
    /\ semaphore' = semaphore + Released(r)
    /\ UNCHANGED <<settings, handler, patterns, pattern_data, flows, delivered,
                   last_refresh, cacheSteps, auto, selector, backend>>

UpstreamReturns(r) ==
    /\ handler = "ForwarderAddon"
    /\ req[r].pc = "upstream"
    /\ \/ \E code \in UpstreamStatus :
             req' = [req EXCEPT ![r] = SucceededAttempt(@, code)]
       \/ \E err \in UpstreamErrors :
             req' = [req EXCEPT ![r] = FailedAttempt(@, @.proxy_info, err)]
    /\ semaphore' = semaphore + Released(r)
    /\ UNCHANGED <<settings, handler, patterns, pattern_data, flows, delivered,
                   last_refresh, cacheSteps, auto, selector, backend>>

\* A refresh() task (the one of running(), of the auto-refresh loop or of
\* ensure_fresh) gets its fetch result and swaps the snapshot.
Refresh ==
    /\ \E rules \in FetchResults :
          IF ShouldSwap(rules)
          THEN /\ patterns' = CompilePatterns(rules)
               /\ pattern_data' = rules
               /\ last_refresh' = now
          ELSE UNCHANGED <<patterns, pattern_data, last_refresh>>
    /\ UNCHANGED <<settings, handler, semaphore, flows, req, delivered,
                   cacheSteps, auto, selector, backend>>

\* A post_activity task created by the flow's hook runs to its end.
PostActivityEnds(r) ==
    /\ Len(delivered[r]) < Len(req[r].activity)
    /\ \E out \in PostOutcomes :
          delivered' = [delivered EXCEPT ![r] = Append(@, PostActivity(out))]
    /\ UNCHANGED <<settings, handler, semaphore, patterns, pattern_data, flows,
                   req, last_refresh, cacheSteps, auto, selector, backend>>

\* ------------------------------------------- mitm_forwarder_addon.request
\* The older hook: the same gates, then one get_proxy call and one upstream
\* call, each failure answered at once.
AddonFinish(q, code, info) ==
    Leave(LogActivity([q EXCEPT !.response = Synthetic(code),
                                !.proxy_info = None], code, info))

\* The except clauses of lines 225-277, by the exception raised.
AddonErrorStatus(err) == IF err = "TimeoutException" THEN 504 ELSE 502

AddonRequest(r) ==
    /\ handler = "addon"
    /\ r \in flows
    /\ req[r].pc = "idle"
    /\ IdleCalls # {}
    /\ \E auth \in ClientAuthValues, url \in Urls :
          req' = [req EXCEPT ![r] = Gate(@, auth, url)]
    /\ refreshing' = EnsureFreshTask(req'[r].ensure_called)
    /\ UNCHANGED <<settings, handler, semaphore, patterns, pattern_data, flows, delivered,
                   last_refresh, now, lock, origin, check, auto, selector, backend>>

AddonAcquireSemaphore(r) ==
    /\ handler = "addon"
    /\ req[r].pc = "semaphore"
    /\ CanAcquire(semaphore)
    /\ semaphore' = semaphore - 1
    /\ req' = [req EXCEPT ![r] =
                 IssueCall([@ EXCEPT !.acquires = @ + 1], "", "primary")]
    /\ UNCHANGED <<settings, handler, patterns, pattern_data, flows, delivered,
                   last_refresh, cacheSteps, auto, selector, backend>>

AddonGetProxyReturns(r) ==
    /\ handler = "addon"
    /\ req[r].pc = "get_proxy"
    /\ \E reply \in ProxyEndpointReplies :
          LET info == GetProxy(req[r].user_jwt, reply)
          IN req' = [req EXCEPT ![r] =
                       IF info = None
                       THEN AddonFinish([@ EXCEPT !.all_timeout = FALSE], 502, None)
                       ELSE [@ EXCEPT !.pc = "upstream", !.proxy_info = info]]
    /\ semaphore' = semaphore + Released(r)
    /\ UNCHANGED <<settings, handler, patterns, pattern_data, flows, delivered,
                   last_refresh, cacheSteps, auto, selector, backend>>

AddonUpstreamReturns(r) ==
    /\ handler = "addon"
    /\ req[r].pc = "upstream"
    /\ \/ \E code \in UpstreamStatus :
             req' = [req EXCEPT ![r] = SucceededAttempt(@, code)]
       \/ \E err \in UpstreamErrors :
             req' = [req EXCEPT ![r] =
                       AddonFinish([@ EXCEPT !.all_timeout = err = "TimeoutException"],
                                   AddonErrorStatus(err), @.proxy_info)]
       \* building the headers or the proxied client raised (outer except)
       \/ req' = [req EXCEPT ![r] =
                    Leave([@ EXCEPT !.response = Synthetic(500),
                                    !.all_timeout = FALSE,
                                    !.proxy_info = None])]
    /\ semaphore' = semaphore + Released(r)
    /\ UNCHANGED <<settings, handler, patterns, pattern_data, flows, delivered,
                   last_refresh, cacheSteps, auto, selector, backend>>

\* ------------------------------------------- BlacklistCache, step by step
NewRefresh == [pc |-> "idle", by |-> "", status |-> "", rules |-> <<>>]

NewCheck ==
    [pc |-> "idle", url |-> "", overlapped |-> FALSE,
     patterns |-> <<>>, pattern_data |-> <<>>,
     from |-> [patterns |-> "__init__", pattern_data |-> "__init__"],
     result |-> [matched |-> FALSE, pattern |-> None]]

forwarder == <<settings, handler, semaphore, flows, req, delivered>>

\* running() and the auto-refresh loop call refresh() whatever the cache's age.
RefreshStarts(t) ==
    /\ refreshing[t].pc = "idle"
    /\ refreshing' = [refreshing EXCEPT ![t].pc = "fetch", ![t].by = "running"]
    /\ UNCHANGED <<forwarder, auto, selector, backend, patterns, pattern_data, last_refresh, now, lock,
                   origin, check>>

\* ensure_fresh(): a refresh() task is created when needs_refresh() says so.
EnsureFresh(t) ==
    /\ refreshing[t].pc = "idle"
    /\ NeedsRefresh(now, last_refresh)
    /\ refreshing' = [refreshing EXCEPT ![t].pc = "fetch",
                                        ![t].by = "ensure_fresh"]
    /\ UNCHANGED <<forwarder, auto, selector, backend, patterns, pattern_data, last_refresh, now, lock,
                   origin, check>>

\* refresh(): fetch_blacklist comes back; `if rules:` decides on the swap.
FetchReturns(t) ==
    /\ refreshing[t].pc = "fetch"
    /\ \E reply \in FetchReplies :
          LET rules == FetchBlacklist(reply)
          IN refreshing' = [refreshing EXCEPT
                 ![t].status = reply.status,
                 ![t].rules = rules,
                 ![t].pc = IF ShouldSwap(rules) THEN "lock" ELSE "done"]
    /\ UNCHANGED <<forwarder, auto, selector, backend, patterns, pattern_data, last_refresh, now, lock,
                   origin, check>>

\* refresh(): with self._lock
RefreshLocks(t) ==
    /\ refreshing[t].pc = "lock"
    /\ LockFree(lock)
    /\ lock' = t
    /\ refreshing' = [refreshing EXCEPT ![t].pc = "patterns"]
    /\ UNCHANGED <<forwarder, auto, selector, backend, patterns, pattern_data, last_refresh, now,
                   origin, check>>

\* self._patterns = compiled
WritePatterns(t) ==
    /\ refreshing[t].pc = "patterns"
    /\ patterns' = CompilePatterns(refreshing[t].rules)
    /\ origin' = [origin EXCEPT !.patterns = t]
    /\ refreshing' = [refreshing EXCEPT ![t].pc = "pattern_data"]
    /\ UNCHANGED <<forwarder, auto, selector, backend, pattern_data, last_refresh, now, lock, check>>

\* self._pattern_data = rules
WritePatternData(t) ==
    /\ refreshing[t].pc = "pattern_data"
    /\ pattern_data' = refreshing[t].rules
    /\ origin' = [origin EXCEPT !.pattern_data = t]
    /\ refreshing' = [refreshing EXCEPT ![t].pc = "last_refresh"]
    /\ UNCHANGED <<forwarder, auto, selector, backend, patterns, last_refresh, now, lock, check>>

\* self._last_refresh = time.time(), and the lock is released
WriteLastRefresh(t) ==
    /\ refreshing[t].pc = "last_refresh"
    /\ last_refresh' = now
    /\ lock' = "free"
    /\ refreshing' = [refreshing EXCEPT ![t].pc = "done"]
    /\ UNCHANGED <<forwarder, auto, selector, backend, patterns, pattern_data, now, origin, check>>

\* is_blacklisted(url) is called: `if not url: return False, None`
IsBlacklistedCalled ==
    /\ check.pc \in {"idle", "done"}
    /\ \E url \in CacheUrls :
          check' = IF url = ""
                   THEN [NewCheck EXCEPT !.pc = "done"]
                   ELSE [NewCheck EXCEPT !.pc = "lock", !.url = url,
                                         !.overlapped = ~LockFree(lock)]
    /\ UNCHANGED <<forwarder, auto, selector, backend, patterns, pattern_data, last_refresh, now, lock,
                   origin, refreshing>>

\* is_blacklisted: with self._lock
CheckLocks ==
    /\ check.pc = "lock"
    /\ LockFree(lock)
    /\ lock' = "is_blacklisted"
    /\ check' = [check EXCEPT !.pc = "copy_patterns"]
    /\ UNCHANGED <<forwarder, auto, selector, backend, patterns, pattern_data, last_refresh, now,
                   origin, refreshing>>

\* patterns = self._patterns.copy()
CopyPatterns ==
    /\ check.pc = "copy_patterns"
    /\ check' = [check EXCEPT !.pc = "copy_pattern_data",
                              !.patterns = patterns,
                              !.from.patterns = origin.patterns]
    /\ UNCHANGED <<forwarder, auto, selector, backend, patterns, pattern_data, last_refresh, now, lock,
                   origin, refreshing>>

\* pattern_data = self._pattern_data.copy(); the lock is released and the
\* copies are searched.
CopyPatternData ==
    /\ check.pc = "copy_pattern_data"
    /\ lock' = "free"
    /\ check' = [check EXCEPT
                    !.pc = "done",
                    !.pattern_data = pattern_data,
                    !.from.pattern_data = origin.pattern_data,
                    !.result = IsBlacklisted(check.patterns, pattern_data,
                                             check.url)]
    /\ UNCHANGED <<forwarder, auto, selector, backend, patterns, pattern_data, last_refresh, now,
                   origin, refreshing>>

\* A second passes.
Tick ==
    /\ now < StartTime + MaxTicks
    /\ now' = now + 1
    /\ UNCHANGED <<forwarder, auto, selector, backend, patterns, pattern_data, last_refresh, lock,
                   origin, refreshing, check>>

\* ------------------------------------------------ the auto-refresh task
\* start: the start_auto_refresh() task running() creates; task: the
\* refresh_loop task kept in _refresh_task ("none" while that is None);
\* cancel: task.cancel() was called and CancelledError is still to be thrown.
NewAuto ==
    [start |-> "none", task |-> "none", cancel |-> FALSE, slept_at |-> 0,
     stopped |-> FALSE]

\* running(): the first refresh() and start_auto_refresh() become tasks.
Running ==
    /\ auto.start = "none"
    /\ ~auto.stopped
    /\ IdleCalls # {}
    /\ auto' = [auto EXCEPT !.start = "scheduled"]
    /\ refreshing' = [refreshing EXCEPT ![CHOOSE t \in IdleCalls : TRUE] =
                         [@ EXCEPT !.pc = "fetch", !.by = "running"]]
    /\ UNCHANGED <<forwarder, selector, backend, patterns, pattern_data, last_refresh, now, lock,
                   origin, check>>

\* start_auto_refresh() runs: the refresh_loop task is created and kept.
StartAutoRefresh ==
    /\ auto.start = "scheduled"
    /\ auto' = [auto EXCEPT !.start = "done", !.task = "created"]
    /\ UNCHANGED <<forwarder, selector, backend, patterns, pattern_data, last_refresh, cacheSteps>>

\* refresh_loop: await asyncio.sleep(blacklist_refresh_seconds) begins.
LoopSleeps ==
    /\ auto.task = "created"
    /\ ~auto.cancel
    /\ auto' = [auto EXCEPT !.task = "sleep", !.slept_at = now]
    /\ UNCHANGED <<forwarder, selector, backend, patterns, pattern_data, last_refresh, cacheSteps>>

\* The sleep is over: await self.refresh() starts its fetch.
LoopWakes ==
    /\ auto.task = "sleep"
    /\ ~auto.cancel
    /\ now - auto.slept_at >= settings.blacklist_refresh_seconds
    /\ auto' = [auto EXCEPT !.task = "refresh"]
    /\ UNCHANGED <<forwarder, selector, backend, patterns, pattern_data, last_refresh, cacheSteps>>

\* The loop's refresh() gets its fetch result, swaps when there are rules,
\* and the loop sleeps again.
LoopRefreshReturns ==
    /\ auto.task = "refresh"
    /\ ~auto.cancel
    /\ LockFree(lock)
    /\ \E reply \in FetchReplies :
          LET rules == FetchBlacklist(reply)
          IN IF ShouldSwap(rules)
             THEN /\ patterns' = CompilePatterns(rules)
                  /\ pattern_data' = rules
                  /\ last_refresh' = now
                  /\ origin' = [patterns |-> "refresh_loop",
                                pattern_data |-> "refresh_loop"]
             ELSE UNCHANGED <<patterns, pattern_data, last_refresh, origin>>
    /\ auto' = [auto EXCEPT !.task = "sleep", !.slept_at = now]
    /\ UNCHANGED <<forwarder, selector, backend, now, lock, refreshing, check>>

\* CancelledError is thrown at the task's await: `break`.
LoopCancelled ==
    /\ auto.cancel
    /\ auto' = [auto EXCEPT !.task = "ended", !.cancel = FALSE]
    /\ UNCHANGED <<forwarder, selector, backend, patterns, pattern_data, last_refresh, cacheSteps>>

\* done(): stop_auto_refresh() cancels _refresh_task if there is one that
\* has not ended.
StopAutoRefresh ==
    /\ auto.start # "none"
    /\ ~auto.stopped
    /\ auto' = [auto EXCEPT !.stopped = TRUE,
                            !.cancel = auto.task \notin {"none", "ended"}]
    /\ UNCHANGED <<forwarder, selector, backend, patterns, pattern_data, last_refresh, cacheSteps>>

\* ------------------------------------------------ the proxy manager
\* The rows of the proxy table and the clients calling GET /proxy.
ProxyIds == {1, 2, 3}

Callers == {"c1", "c2"}

StrategyNames == {"random", "round_robin", "lru", "best", "health_score"}

\* What a client puts in ?strategy= : nothing, one of the names, or
\* another string.
RequestedStrategies ==
    {None} \cup {Some(n) : n \in StrategyNames \cup {"Random"}}

\* A Proxy row as the model's defaults leave it.
NewProxy ==
    [is_working |-> FALSE, latency |-> None, fail_count |-> 0,
     last_checked |-> None, last_used |-> None]

LatencyPointsInclusive(latency) ==
    IF latency # None
    THEN IF The(latency) <= 100 THEN 30
         ELSE IF The(latency) <= 300 THEN 20
         ELSE IF The(latency) <= 500 THEN 10
         ELSE 5
    ELSE 15

\* Factor 2 of calculate_health_score.
LatencyPoints(latency) ==
    IF latency # None
    THEN IF The(latency) < 100 THEN 30
         ELSE IF The(latency) < 300 THEN 20
         ELSE IF The(latency) < 500 THEN 10
         ELSE 5
    ELSE 15

FailPointsRising(fail_count) ==
    IF fail_count = 0 THEN 5
    ELSE IF fail_count <= 2 THEN 10
    ELSE IF fail_count <= 5 THEN 15
    ELSE 20

\* Factor 3 of calculate_health_score.
FailPoints(fail_count) ==
    IF fail_count = 0 THEN 20
    ELSE IF fail_count <= 2 THEN 15
    ELSE IF fail_count <= 5 THEN 10
    ELSE 5

\* Factor 4 of calculate_health_score, t being datetime.now() in seconds:
\* hours = seconds / 3600 is compared with 1, 24 and 168.
RecencyPoints(last_checked, t) ==
    IF last_checked # None
    THEN LET time_since_check == t - The(last_checked)
         IN IF time_since_check < 3600 THEN 10
            ELSE IF time_since_check < 24 * 3600 THEN 7
            ELSE IF time_since_check < 168 * 3600 THEN 5
            ELSE 2
    ELSE 1

Min(a, b) == IF a <= b THEN a ELSE b

\* Proxy.calculate_health_score() on the row p at the time t.
CalculateHealthScore(p, t) ==
    IF ~p.is_working
    THEN 0
    ELSE Min(40 + LatencyPoints(p.latency) + FailPoints(p.fail_count)
                + RecencyPoints(p.last_checked, t), 100)

\* get_working_proxies: the rows with is_working, in whatever order the
\* query returns them (it has no ORDER BY).
Working(ps) == {p \in ProxyIds : ps[p].is_working}

Perms(S) ==
    {s \in [1..Cardinality(S) -> S] :
        \A i, j \in 1..Cardinality(S) : s[i] = s[j] => i = j}

\* Python's sorted(ws, key=..., reverse=reverse), the key of each element
\* given by the function key: stable in both directions, elements with
\* equal keys keep their order in ws.
Sorted(ws, key, reverse) ==
    LET n == Len(ws)
        Before(j, i) ==
            IF key[ws[j]] = key[ws[i]] THEN j < i
            ELSE IF reverse THEN key[ws[j]] > key[ws[i]]
            ELSE key[ws[j]] < key[ws[i]]
        Place(i) == 1 + Cardinality({j \in 1..n : Before(j, i)})
    IN [k \in 1..n |-> ws[CHOOSE i \in 1..n : Place(i) = k]]

GetRoundRobinUnsorted(ws, index) == ws[(index % Len(ws)) + 1]

\* _get_round_robin's pick: sorted by id, the element at index % len.
GetRoundRobin(ws, index) ==
    Sorted(ws, [p \in ProxyIds |-> p], FALSE)[(index % Len(ws)) + 1]

\* datetime.min, below every time the clock shows.
DatetimeMin == -1

GetLruFirst(ws, ps) == ws[1]

\* _get_lru's pick: sorted by last_used, never used counting as datetime.min.
GetLru(ws, ps) ==
    Sorted(ws,
           [p \in ProxyIds |-> IF ps[p].last_used # None
                               THEN The(ps[p].last_used)
                               ELSE DatetimeMin],
           FALSE)[1]

GetBestFirst(ws, ps) == ws[1]

\* _get_best's pick: the lowest latency among those that have one, else the
\* first proxy of the list.
GetBest(ws, ps) ==
    LET proxies_with_latency == SelectSeq(ws, LAMBDA p : ps[p].latency # None)
    IN IF proxies_with_latency # <<>>
       THEN Sorted(proxies_with_latency,
                   [p \in {q \in ProxyIds : ps[q].latency # None} |->
                       The(ps[p].latency)],
                   FALSE)[1]
       ELSE ws[1]

GetByHealthScoreLast(ws, ps, t) ==
    LET sorted_proxies ==
            Sorted(ws, [p \in ProxyIds |-> CalculateHealthScore(ps[p], t)],
                   FALSE)
    IN sorted_proxies[Len(sorted_proxies)]

\* _get_by_health_score's pick: sorted by score, highest first.
GetByHealthScore(ws, ps, t) ==
    Sorted(ws, [p \in ProxyIds |-> CalculateHealthScore(ps[p], t)], TRUE)[1]

\* get_proxy's dispatch for the strategies that pick without the counter:
\* the proxies the call may pick from the list ws it read.
Picks(strategy, ws, ps, t) ==
    IF strategy = "random" THEN {ws[i] : i \in 1..Len(ws)}
    ELSE IF strategy = "lru" THEN {GetLru(ws, ps)}
    ELSE IF strategy = "best" THEN {GetBest(ws, ps)}
    ELSE IF strategy = "health_score" THEN {GetByHealthScore(ws, ps, t)}
    ELSE {GetByHealthScore(ws, ps, t)}

UpdateLastUsedAll(ps, p, t) ==
    [q \in ProxyIds |-> [ps[q] EXCEPT !.last_used = Some(t)]]

\* crud.update_last_used: the row p gets last_used = datetime.now().
UpdateLastUsed(ps, p, t) == [ps EXCEPT ![p].last_used = Some(t)]

RotationLockIgnored(l) == TRUE

\* threading.Lock: `with self.lock` goes on when nobody holds it.
RotationLockFree(l) == l = "free"

\* The strategy parameter is declared Literal[...] with default None:
\* FastAPI answers 422 to any other string before the handler runs.
RouteAccepts(strategy) ==
    strategy = None \/ The(strategy) \in StrategyNames

\* What stands between a request and the selection: authentication (401),
\* check_rate_limit (429) and the blacklist check (403).
RouteGates == {"pass", "401", "429", "403"}

NewSelection ==
    [pc |-> "idle", strategy |-> "", working |-> <<>>, index |-> 0,
     loaded |-> 0, proxy |-> None, response |-> "none", scores |-> <<>>]

RoundRobinSteps == {"pick", "load", "store"}

\* After the route's gates: get_proxy(session, strategy) reads the working
\* proxies; none gives None (404); round_robin goes for the lock; the other
\* strategies pick from what was read.
GetProxyCalled(c, strategy) ==
    \E ws \in Perms(Working(proxies)) :
        LET call == [NewSelection EXCEPT !.strategy = strategy,
                                         !.working = ws]
        IN IF ws = <<>>
           THEN selecting' = [selecting EXCEPT ![c] =
                                 [call EXCEPT !.response = "404"]]
           ELSE IF strategy = "round_robin"
           THEN selecting' = [selecting EXCEPT ![c] =
                                 [call EXCEPT !.pc = "pick"]]
           ELSE \E p \in Picks(strategy, ws, proxies, now) :
                   selecting' = [selecting EXCEPT ![c] =
                                    [call EXCEPT !.pc = "update_last_used",
                                                 !.proxy = Some(p)]]

\* GET /proxy: get_proxy_by_strategy with its query parameter, the outcome
\* of its gates and the configured default strategy.
GetProxyByStrategy(c, strategy, gate, configured) ==
    /\ selecting[c].pc = "idle"
    /\ round_robin_index < MaxSelections
    /\ IF gate = "401"
       THEN selecting' = [selecting EXCEPT ![c] =
                             [NewSelection EXCEPT !.response = "401"]]
       ELSE IF ~RouteAccepts(strategy)
       THEN selecting' = [selecting EXCEPT ![c] =
                             [NewSelection EXCEPT !.strategy = The(strategy),
                                                  !.response = "422"]]
       ELSE IF gate # "pass"
       THEN selecting' = [selecting EXCEPT ![c] =
                             [NewSelection EXCEPT !.response = gate]]
       ELSE GetProxyCalled(c, IF strategy # None THEN The(strategy)
                                 ELSE configured)
    /\ UNCHANGED <<forwarder, auto, patterns, pattern_data, last_refresh,
                   cacheSteps, backend, proxies, round_robin_index, rotation_lock,
                   served>>

\* _get_round_robin inside `with self.lock`: the list is sorted and the
\* element at round_robin_index % len is taken.
RoundRobinPicks(c) ==
    /\ selecting[c].pc = "pick"
    /\ RotationLockFree(rotation_lock)
    /\ rotation_lock' = c
    /\ selecting' = [selecting EXCEPT ![c] =
                        [@ EXCEPT !.pc = "load",
                                  !.index = round_robin_index,
                                  !.proxy =
                                      Some(GetRoundRobin(selecting[c].working,
                                                         round_robin_index))]]
    /\ UNCHANGED <<forwarder, auto, patterns, pattern_data, last_refresh,
                   cacheSteps, backend, proxies, round_robin_index, served>>

\* self.round_robin_index += 1 reads the attribute ...
RoundRobinLoads(c) ==
    /\ selecting[c].pc = "load"
    /\ selecting' = [selecting EXCEPT ![c] =
                        [@ EXCEPT !.pc = "store",
                                  !.loaded = round_robin_index]]
    /\ UNCHANGED <<forwarder, auto, patterns, pattern_data, last_refresh,
                   cacheSteps, backend, proxies, round_robin_index, rotation_lock,
                   served>>

\* ... and stores it one higher; the `with` block ends.
RoundRobinStores(c) ==
    /\ selecting[c].pc = "store"
    /\ round_robin_index' = selecting[c].loaded + 1
    /\ rotation_lock' = "free"
    /\ selecting' = [selecting EXCEPT ![c] =
                        [@ EXCEPT !.pc = "update_last_used"]]
    /\ UNCHANGED <<forwarder, auto, patterns, pattern_data, last_refresh,
                   cacheSteps, backend, proxies, served>>

\* Every strategy ends with update_last_used(session, proxy); the route
\* answers 200 with the proxy.
SelectionReturns(c) ==
    /\ selecting[c].pc = "update_last_used"
    /\ proxies' = UpdateLastUsed(proxies, The(selecting[c].proxy), now)
    /\ served' = IF selecting[c].strategy = "round_robin"
                 THEN Append(served,
                             [index |-> selecting[c].index,
                              proxy |-> The(selecting[c].proxy),
                              working |-> {selecting[c].working[i] :
                                    i \in 1..Len(selecting[c].working)}])
                 ELSE served
    /\ selecting' = [selecting EXCEPT ![c] =
                        [@ EXCEPT !.pc = "idle", !.working = <<>>,
                                  !.index = 0, !.loaded = 0,
                                  !.response = "200"]]
    /\ UNCHANGED <<forwarder, auto, patterns, pattern_data, last_refresh,
                   cacheSteps, backend, round_robin_index, rotation_lock>>

\* GET /proxies: list_proxies answers with every row and its
\* calculate_health_score().
ListProxies(c) ==
    /\ selecting[c].pc = "idle"
    /\ selecting[c].scores = <<>>
    /\ selecting' = [selecting EXCEPT ![c] =
          [NewSelection EXCEPT
              !.response = "200",
              !.scores = [p \in ProxyIds |->
                             CalculateHealthScore(proxies[p], now)]]]
    /\ UNCHANGED <<forwarder, auto, patterns, pattern_data, last_refresh,
                   cacheSteps, backend, proxies, round_robin_index, rotation_lock,
                   served>>

\* ------------------------------------------------ the proxy tester
\* The two ProxyTester objects: the scheduler's and the routes'.
Testers == {"scheduler", "route"}

\* What a probe meets: a response with its status, or an exception of
\* client.get, each after the time measured.
ProbeOutcomes ==
    {[kind |-> k, elapsed |-> e] :
        k \in {"200", "503", "TimeoutException", "ProxyError", "Exception"},
        e \in {50, 200}}

\* test_proxy_async: the ProxyTestResult for what the probe met.
TestProxyAsync(proxy_id, outcome) ==
    IF outcome.kind = "200"
    THEN [proxy_id |-> proxy_id, success |-> TRUE,
          latency |-> Some(outcome.elapsed), status_code |-> Some(200),
          error |-> None]
    ELSE IF outcome.kind = "503"
    THEN [proxy_id |-> proxy_id, success |-> FALSE,
          latency |-> Some(outcome.elapsed), status_code |-> Some(503),
          error |-> Some("HTTP 503")]
    ELSE IF outcome.kind = "TimeoutException"
    THEN [proxy_id |-> proxy_id, success |-> FALSE,
          latency |-> Some(outcome.elapsed), status_code |-> None,
          error |-> Some("Connection timeout")]
    ELSE IF outcome.kind = "ProxyError"
    THEN [proxy_id |-> proxy_id, success |-> FALSE,
          latency |-> Some(outcome.elapsed), status_code |-> None,
          error |-> Some("Proxy error")]
    ELSE [proxy_id |-> proxy_id, success |-> FALSE,
          latency |-> Some(outcome.elapsed), status_code |-> None,
          error |-> Some("Unexpected error")]

ExecutionErrorDropped(proxy_id) ==
    [proxy_id |-> proxy_id, success |-> TRUE, latency |-> None,
     status_code |-> None, error |-> None]

\* test_proxies_batch's result for a future whose result() raised.
ExecutionError(proxy_id) ==
    [proxy_id |-> proxy_id, success |-> FALSE, latency |-> None,
     status_code |-> None, error |-> Some("Test execution error")]

\* A Future: not submitted, queued, running, returned with a result, or
\* raised.
NewFuture == [state |-> "none", proxy |-> 0, result |-> None]

FutureDone(f) == f.state \in {"returned", "raised"}

\* The tasks a tester is given: the scheduler's batch has one per proxy,
\* the route one per client.
Tasks(tester) == IF tester = "scheduler" THEN ProxyIds ELSE Callers

NewExecutor == [queue |-> <<>>, running |-> {}]

CanStartAlways(ex, n) == TRUE

\* ThreadPoolExecutor(max_workers=n): a queued call starts when fewer than
\* n of its threads are busy.
CanStart(ex, n) == Cardinality(ex.running) < n

\* health_check_job, idle between two runs.
NewJob ==
    [pc |-> "idle", proxies |-> <<>>, loaded |-> <<>>, results |-> <<>>,
     collected |-> {}, expired |-> FALSE, index |-> 0]

\* test_proxy_by_id, per client.
NewTest == [pc |-> "idle", proxy |-> 0, loaded |-> <<>>, response |-> "none"]

\* The probe results applied to a proxy, summed up: how many, how many
\* failures since the last success, and the last success's latency.
NoneApplied == [count |-> 0, failures |-> 0, latency |-> None]

Applying(sum, result) ==
    [count |-> sum.count + 1,
     failures |-> IF result.success THEN 0 ELSE sum.failures + 1,
     latency |-> IF result.success THEN result.latency ELSE sum.latency]

\* update_proxy_after_test on a Proxy object whose attributes are row.
AfterTest(row, is_working, latency, t) ==
    [row EXCEPT !.is_working = is_working,
                !.last_checked = Some(t),
                !.latency = IF is_working /\ latency # None
                            THEN latency ELSE @,
                !.fail_count = IF is_working THEN 0 ELSE @ + 1]

\* session.commit(): the UPDATE sets the columns whose value differs from
\* the one the object was loaded with; the others stay as the table has them.
Flush(stored, loaded, changed) ==
    [f \in DOMAIN stored |->
        IF changed[f] # loaded[f] THEN changed[f] ELSE stored[f]]

\* submit(): the calls join the executor's queue in the order given.
Submitted(ex, tasks) == [ex EXCEPT !.queue = @ \o tasks]

\* health_check_job starts: get_all_proxies loads every row, in the order ps
\* the database gives them, and test_proxies_batch submits one probe per
\* proxy.
HealthCheckJob(ps) ==
    /\ job.pc = "idle"
    /\ \A p \in ProxyIds : applied[p].count < MaxProbes
    /\ job' = [NewJob EXCEPT !.pc = "collecting", !.proxies = ps,
                             !.loaded = proxies,
                             !.results = [p \in ProxyIds |-> None]]
    /\ executor' = [executor EXCEPT !["scheduler"] = Submitted(@, ps)]
    /\ futures' = [futures EXCEPT !["scheduler"] =
                      [p \in ProxyIds |->
                          [NewFuture EXCEPT !.state = "queued", !.proxy = p]]]
    /\ UNCHANGED <<forwarder, auto, patterns, pattern_data, last_refresh,
                   cacheSteps, guards, selector, max_workers, testing, applied>>

\* A thread of the pool takes the next call of the queue.
WorkerStarts(tester) ==
    /\ executor[tester].queue # <<>>
    /\ CanStart(executor[tester], max_workers)
    /\ LET task == Head(executor[tester].queue)
       IN /\ executor' = [executor EXCEPT
                            ![tester].queue = Tail(@),
                            ![tester].running = @ \cup {task}]
          /\ futures' = [futures EXCEPT ![tester][task].state = "running"]
    /\ UNCHANGED <<forwarder, auto, patterns, pattern_data, last_refresh,
                   cacheSteps, guards, selector, max_workers, job, testing, applied>>

\* test_proxy_sync returns what test_proxy_async made of the outcome.
ProbeReturns(tester, task, outcome) ==
    /\ task \in executor[tester].running
    /\ executor' = [executor EXCEPT ![tester].running = @ \ {task}]
    /\ futures' = [futures EXCEPT ![tester][task] =
          [@ EXCEPT !.state = "returned",
                    !.result = Some(TestProxyAsync(
                                   futures[tester][task].proxy, outcome))]]
    /\ UNCHANGED <<forwarder, auto, patterns, pattern_data, last_refresh,
                   cacheSteps, guards, selector, max_workers, job, testing, applied>>

\* test_proxy_sync raises outside test_proxy_async's handlers (the event
\* loop of the thread cannot be made).
ProbeRaises(tester, task) ==
    /\ task \in executor[tester].running
    /\ executor' = [executor EXCEPT ![tester].running = @ \ {task}]
    /\ futures' = [futures EXCEPT ![tester][task].state = "raised"]
    /\ UNCHANGED <<forwarder, auto, patterns, pattern_data, last_refresh,
                   cacheSteps, guards, selector, max_workers, job, testing, applied>>

\* as_completed hands test_proxies_batch a finished future: its result, or
\* the one made up for a future that raised, is stored under the proxy's
\* id; after the last one the batch returns.
BatchCollects(p) ==
    /\ job.pc = "collecting"
    /\ p \notin job.collected
    /\ FutureDone(futures["scheduler"][p])
    /\ LET future == futures["scheduler"][p]
           result == IF future.state = "returned" THEN The(future.result)
                     ELSE ExecutionError(p)
       IN job' = [job EXCEPT
                     !.results[p] = Some(result),
                     !.collected = @ \cup {p},
                     !.pc = IF job.collected \cup {p} = ProxyIds
                            THEN "applying" ELSE @,
                     !.index = IF job.collected \cup {p} = ProxyIds
                               THEN 1 ELSE @]
    /\ UNCHANGED <<forwarder, auto, patterns, pattern_data, last_refresh,
                   cacheSteps, guards, selector, max_workers, executor, futures,
                   testing, applied>>

\* health_check_job's loop over the proxies it loaded: the result of the
\* next one is applied and committed. The first commit expires the loaded
\* objects, so the later ones are read again before they are changed.
JobApplies ==
    /\ job.pc = "applying"
    /\ LET p == job.proxies[job.index]
           result == The(job.results[p])
           loaded == IF job.expired THEN proxies[p] ELSE job.loaded[p]
           changed == AfterTest(loaded, result.success, result.latency, now)
       IN /\ proxies' = [proxies EXCEPT ![p] = Flush(@, loaded, changed)]
          /\ applied' = [applied EXCEPT ![p] = Applying(@, result)]
    /\ job' = IF job.index = Len(job.proxies) THEN NewJob
              ELSE [job EXCEPT !.index = @ + 1, !.expired = TRUE]
    /\ UNCHANGED <<forwarder, auto, patterns, pattern_data, last_refresh,
                   cacheSteps, guards, round_robin_index, rotation_lock, selecting,
                   served, max_workers, executor, futures, testing>>

\* POST /proxies/{id}/test: test_proxy_by_id passes its gates, loads the
\* proxy and submits its probe to the routes' tester.
TestProxyById(c, p, gate) ==
    /\ testing[c].pc = "idle"
    /\ applied[p].count < MaxProbes
    /\ IF gate # "pass"
       THEN /\ testing' = [testing EXCEPT ![c] =
                              [NewTest EXCEPT !.response = gate]]
            /\ UNCHANGED <<executor, futures>>
       ELSE /\ testing' = [testing EXCEPT ![c] =
                              [NewTest EXCEPT !.pc = "result", !.proxy = p,
                                              !.loaded = proxies[p]]]
            /\ executor' = [executor EXCEPT
                              !["route"] = Submitted(@, <<c>>)]
            /\ futures' = [futures EXCEPT !["route"][c] =
                              [NewFuture EXCEPT !.state = "queued",
                                                !.proxy = p]]
    /\ UNCHANGED <<forwarder, auto, patterns, pattern_data, last_refresh,
                   cacheSteps, guards, selector, max_workers, job, applied>>

\* future.result() hands the route its result, which it applies to the
\* object it loaded and answers with; a future that raised makes it a 500.
TestReturns(c) ==
    /\ testing[c].pc = "result"
    /\ FutureDone(futures["route"][c])
    /\ LET future == futures["route"][c]
           p == testing[c].proxy
       IN IF future.state = "raised"
          THEN /\ testing' = [testing EXCEPT ![c] =
                                 [NewTest EXCEPT !.response = "500"]]
               /\ UNCHANGED <<proxies, applied>>
          ELSE LET result == The(future.result)
                   changed == AfterTest(testing[c].loaded, result.success,
                                        result.latency, now)
               IN /\ proxies' = [proxies EXCEPT ![p] =
                                    Flush(@, testing[c].loaded, changed)]
                  /\ applied' = [applied EXCEPT ![p] = Applying(@, result)]
                  /\ testing' = [testing EXCEPT ![c] =
                                    [NewTest EXCEPT !.response = "200"]]
    /\ UNCHANGED <<forwarder, auto, patterns, pattern_data, last_refresh,
                   cacheSteps, guards, round_robin_index, rotation_lock, selecting,
                   served, max_workers, executor, futures, job>>

\* ProxyTester.__init__ twice, each with a pool of n threads, and the
\* scheduler's job not yet run.
ProberConstructed(n) ==
    /\ max_workers = n
    /\ executor = [t \in Testers |-> NewExecutor]
    /\ futures = [t \in Testers |-> [k \in Tasks(t) |-> NewFuture]]
    /\ job = NewJob
    /\ testing = [c \in Callers |-> NewTest]
    /\ applied = [p \in ProxyIds |-> NoneApplied]

\* ------------------------------------------------ the manager's blacklist
\* The blacklist table as get_all_blacklist_rules reads it (newest first):
\* one rule that stays, and a second that is added and deleted.
RuleTables == {<<PatFacebook>>, <<PatTwitter, PatFacebook>>}

\* The target_url of GET /proxy; "" is none given.
TargetUrls == {"", UrlFacebook, UrlExample}

\* A request thread's locals around blacklist_checker.
NewGate ==
    [pc |-> "idle", url |-> "", rules |-> <<>>, strategy |-> "",
     then |-> "none", i |-> 0, live |-> FALSE, frozen |-> <<>>,
     response |-> "none", pattern |-> None]

\* The list object check_url iterates: the one the attribute still names,
\* or one that has been replaced since.
Scanned(g) == IF g.live THEN checker_compiled ELSE g.frozen

\* self._compiled_patterns = [] names a new list: a thread iterating the
\* old one keeps the old one, as it was.
ScanKeeps(g) ==
    IF g.pc = "scan" /\ g.live
    THEN [g EXCEPT !.live = FALSE, !.frozen = checker_compiled]
    ELSE g

\* load_patterns has returned: the route goes on to check_url, or is done.
AfterLoad(g) ==
    IF g.then = "check" THEN [g EXCEPT !.pc = "check"]
    ELSE [NewGate EXCEPT !.response = "loaded"]

\* GET /proxy?target_url=url after authentication and check_rate_limit:
\* without a target_url, or with blacklist_enabled off, the selection
\* follows at once; otherwise the rules are read for load_patterns.
GetProxyForTarget(c, url, blacklist_enabled, strategy) ==
    /\ gating[c].pc = "idle"
    /\ selecting[c].pc = "idle"
    /\ round_robin_index < MaxSelections
    /\ IF url = "" \/ ~blacklist_enabled
       THEN /\ gating' = [gating EXCEPT ![c] = NewGate]
            /\ GetProxyCalled(c, strategy)
       ELSE /\ gating' = [gating EXCEPT ![c] =
                             [NewGate EXCEPT !.pc = "rebind", !.url = url,
                                             !.rules = blacklist_table,
                                             !.strategy = strategy,
                                             !.then = "check"]]
            /\ UNCHANGED selecting
    /\ UNCHANGED <<forwarder, auto, patterns, pattern_data, last_refresh,
                   cacheSteps, prober, limiter, proxies, round_robin_index,
                   rotation_lock, served, blacklist_table, checker_patterns,
                   checker_compiled>>

\* POST /blacklist and DELETE /blacklist/{id}: the table changes and the
\* route reloads the checker from it.
SetRules(c, table) ==
    /\ gating[c].pc = "idle"
    /\ selecting[c].pc = "idle"
    /\ table # blacklist_table
    /\ blacklist_table' = table
    /\ gating' = [gating EXCEPT ![c] =
                     [NewGate EXCEPT !.pc = "rebind", !.rules = table,
                                     !.then = "done"]]
    /\ UNCHANGED <<forwarder, auto, patterns, pattern_data, last_refresh,
                   cacheSteps, prober, limiter, selector, checker_patterns,
                   checker_compiled>>

\* load_patterns: self._patterns = blacklist_rules
LoadRebinds(c) ==
    /\ gating[c].pc = "rebind"
    /\ checker_patterns' = gating[c].rules
    /\ gating' = [gating EXCEPT ![c].pc = "clear"]
    /\ UNCHANGED <<forwarder, auto, patterns, pattern_data, last_refresh,
                   cacheSteps, prober, limiter, selector, blacklist_table, checker_compiled>>

\* load_patterns: self._compiled_patterns = []
LoadClears(c) ==
    /\ gating[c].pc = "clear"
    /\ checker_compiled' = <<>>
    /\ gating' = [d \in Callers |->
                     IF d # c THEN ScanKeeps(gating[d])
                     ELSE IF gating[c].rules = <<>> THEN AfterLoad(gating[c])
                     ELSE [gating[c] EXCEPT !.pc = "append", !.i = 1]]
    /\ UNCHANGED <<forwarder, auto, patterns, pattern_data, last_refresh,
                   cacheSteps, prober, limiter, selector, blacklist_table, checker_patterns>>

\* load_patterns, one round of its loop: the rule is compiled and appended
\* to the list the attribute names now; a rule that does not compile is
\* skipped.
LoadAppends(c) ==
    /\ gating[c].pc = "append"
    /\ LET rule == gating[c].rules[gating[c].i]
       IN checker_compiled' = IF Compiles(rule)
                              THEN Append(checker_compiled, rule)
                              ELSE checker_compiled
    /\ gating' = [gating EXCEPT ![c] =
                     IF @.i = Len(@.rules) THEN AfterLoad(@)
                     ELSE [@ EXCEPT !.i = @ + 1]]
    /\ UNCHANGED <<forwarder, auto, patterns, pattern_data, last_refresh,
                   cacheSteps, prober, limiter, selector, blacklist_table, checker_patterns>>

\* check_url: enumerate(self._compiled_patterns) takes the list the
\* attribute names.
CheckStarts(c) ==
    /\ gating[c].pc = "check"
    /\ gating' = [gating EXCEPT ![c] =
                     [@ EXCEPT !.pc = "scan", !.i = 1, !.live = TRUE]]
    /\ UNCHANGED <<forwarder, auto, patterns, pattern_data, last_refresh,
                   cacheSteps, prober, limiter, selector, blacklist_table, checker_patterns,
                   checker_compiled>>

\* check_url, one round of its loop. At the end of the list the url is not
\* blacklisted and the route selects a proxy; a pattern that matches makes
\* it 403 with self._patterns[i].pattern, or 500 when self._patterns has
\* no index i.
CheckScans(c) ==
    /\ gating[c].pc = "scan"
    /\ LET g == gating[c]
           list == Scanned(g)
       IN IF g.i > Len(list)
          THEN /\ gating' = [gating EXCEPT ![c] =
                                [NewGate EXCEPT !.response = "pass"]]
               /\ GetProxyCalled(c, g.strategy)
          ELSE /\ UNCHANGED selecting
               /\ gating' = [gating EXCEPT ![c] =
                     IF ~Search(list[g.i], g.url)
                     THEN [g EXCEPT !.i = @ + 1]
                     ELSE IF g.i <= Len(checker_patterns)
                     THEN [NewGate EXCEPT
                              !.response = "403",
                              !.pattern = Some(checker_patterns[g.i])]
                     ELSE [NewGate EXCEPT !.response = "500"]]
    /\ UNCHANGED <<forwarder, auto, patterns, pattern_data, last_refresh,
                   cacheSteps, prober, limiter, proxies, round_robin_index,
                   rotation_lock, served, blacklist_table, checker_patterns,
                   checker_compiled>>

\* BlacklistChecker.__init__ over a blacklist table.
CheckerConstructed(table) ==
    /\ blacklist_table = table
    /\ checker_patterns = <<>>
    /\ checker_compiled = <<>>
    /\ gating = [c \in Callers |-> NewGate]

\* ------------------------------------------------ the rate limiter
Users == {"u1", "u2"}

\* settings.rate_limit_per_minute as drawn.
RateLimits == {1, 2}

\* How far time.time() has moved on between two looks at it, in seconds.
ClockStep == 30

\* check_rate_limit's window, _cleanup_interval, and the age up to which
\* _cleanup_old_entries keeps entries, in seconds.
Window == 60

CleanupInterval == 60

CleanupKeeps == 120

\* A request thread's locals in RateLimiter.check_rate_limit.
NewLimiting ==
    [pc |-> "idle", user_id |-> "", current_time |-> 0, response |-> "none"]

\* [ts for ts in entries if ts > since]
Since(entries, since) == SelectSeq(entries, LAMBDA ts : ts > since)

\* time.time() moves on.
ClockAdvances ==
    /\ clock < MaxTicks * ClockStep
    /\ clock' = clock + ClockStep
    /\ UNCHANGED <<forwarder, auto, patterns, pattern_data, last_refresh,
                   cacheSteps, selector, prober, checker,
                   requests_per_minute, user_requests, last_cleanup,
                   limiting, admitted>>

\* check_rate_limit(user) begins with _cleanup_old_entries(): it reads the
\* clock and returns at once when the last cleanup is less than
\* _cleanup_interval ago; otherwise, under the lock, it drops every entry
\* older than two minutes and notes the time.
CheckRateLimit(c, u) ==
    /\ limiting[c].pc = "idle"
    /\ limiting' = [limiting EXCEPT ![c] =
                       [NewLimiting EXCEPT !.pc = "time", !.user_id = u]]
    /\ IF clock - last_cleanup < CleanupInterval
       THEN UNCHANGED <<user_requests, last_cleanup>>
       ELSE /\ user_requests' =
                  [v \in Users |-> Since(user_requests[v], clock - CleanupKeeps)]
            /\ last_cleanup' = clock
    /\ UNCHANGED <<forwarder, auto, patterns, pattern_data, last_refresh,
                   cacheSteps, selector, prober, checker,
                   requests_per_minute, clock, admitted>>

\* current_time = time.time(), before the lock is taken.
LimiterReadsTime(c) ==
    /\ limiting[c].pc = "time"
    /\ limiting' = [limiting EXCEPT ![c] =
                       [@ EXCEPT !.pc = "lock", !.current_time = clock]]
    /\ UNCHANGED <<forwarder, auto, patterns, pattern_data, last_refresh,
                   cacheSteps, selector, prober, checker,
                   requests_per_minute, user_requests, last_cleanup, clock,
                   admitted>>

\* The block under the lock: the user's entries inside the window that
\* ends at current_time are counted; at the limit the call returns False
\* (429) and stores nothing, below it current_time is appended and the
\* filtered list stored.
LimiterDecides(c) ==
    /\ limiting[c].pc = "lock"
    /\ LET u == limiting[c].user_id
           t == limiting[c].current_time
           recent == Since(user_requests[u], t - Window)
       IN IF Len(recent) >= requests_per_minute
          THEN /\ limiting' = [limiting EXCEPT ![c] =
                                  [NewLimiting EXCEPT !.response = "429"]]
               /\ UNCHANGED <<user_requests, admitted>>
          ELSE /\ limiting' = [limiting EXCEPT ![c] =
                                  [NewLimiting EXCEPT !.response = "pass"]]
               /\ user_requests' = [user_requests EXCEPT
                                       ![u] = Append(recent, t)]
               /\ admitted' = [admitted EXCEPT ![u] = Append(@, t)]
    /\ UNCHANGED <<forwarder, auto, patterns, pattern_data, last_refresh,
                   cacheSteps, selector, prober, checker,
                   requests_per_minute, last_cleanup, clock>>

\* RateLimiter.__init__ with a limit of n requests per minute.
LimiterConstructed(n) ==
    /\ requests_per_minute = n
    /\ user_requests = [u \in Users |-> <<>>]
    /\ last_cleanup = 0
    /\ clock = 0
    /\ limiting = [c \in Callers |-> NewLimiting]
    /\ admitted = [u \in Users |-> <<>>]

\* crud.update_proxy_after_test on a row just read: a health check's
\* result is stored.
UpdateProxyAfterTest(p, is_working, latency) ==
    /\ proxies' = [proxies EXCEPT ![p] = AfterTest(@, is_working, latency, now)]
    /\ UNCHANGED <<forwarder, auto, patterns, pattern_data, last_refresh,
                   cacheSteps, backend, round_robin_index, rotation_lock, selecting,
                   served>>

SettingsDomain ==
    [rotation_strategy : PrimaryStrategies,
     fallback_strategy : FallbackStrategies,
     retry_count : 0..MaxRetry,
     max_concurrent_requests : 1..MaxSlots,
     require_user_jwt : BOOLEAN,
     default_user_jwt : DefaultJwtValues,
     blacklist_refresh_seconds : 1..MaxTtl]

\* The forwarder runs keep the refresh interval at one value.
ForwarderSettings ==
    {s \in SettingsDomain : s.blacklist_refresh_seconds = MaxTtl}

\* The cache runs vary the refresh interval alone.
CacheSettings ==
    {s \in SettingsDomain :
        /\ s.fallback_strategy = "health_score"
        /\ s.retry_count = 1
        /\ s.max_concurrent_requests = MaxSlots
        /\ s.require_user_jwt
        /\ s.default_user_jwt = ""}

\* ForwarderAddon.__init__ under the settings s, serving the flows fs.
ForwarderConstructed(s, h, fs) ==
    /\ settings = s
    /\ handler = h
    /\ semaphore = s.max_concurrent_requests
    /\ patterns = <<>>
    /\ pattern_data = <<>>
    /\ flows = fs
    /\ req = [r \in Requests |-> NewRequest]
    /\ delivered = [r \in Requests |-> <<>>]
    /\ last_refresh = 0
    /\ now = StartTime
    /\ lock = "free"
    /\ origin = [patterns |-> "__init__", pattern_data |-> "__init__"]
    /\ refreshing = [t \in RefreshCalls |-> NewRefresh]
    /\ check = NewCheck
    /\ auto = NewAuto

\* RotationManager.__init__ over the proxy table ps, nobody calling yet.
ManagerConstructed(ps) ==
    /\ proxies = ps
    /\ round_robin_index = 0
    /\ rotation_lock = "free"
    /\ selecting = [c \in Callers |-> NewSelection]
    /\ served = <<>>

\* The forwarder and the proxy manager it asks, whose proxies no health
\* check has tested yet.
Constructed(s, h, fs) ==
    /\ ForwarderConstructed(s, h, fs)
    /\ ManagerConstructed([p \in ProxyIds |-> NewProxy])
    /\ ProberConstructed(MaxWorkers)
    /\ CheckerConstructed(<<>>)
    /\ LimiterConstructed(1)

\* One flow at a time, every configuration.
Init == \E s \in ForwarderSettings : Constructed(s, "ForwarderAddon", {"r1"})

Next ==
    \/ \E r \in Requests : Request(r)
    \/ \E r \in Requests : AcquireSemaphore(r)
    \/ \E r \in Requests : GetProxyReturns(r)
    \/ \E r \in Requests : UpstreamReturns(r)
    \/ Refresh

Spec == Init /\ [][Next]_vars

\* The hook together with the post_activity tasks it leaves behind.
NextActivity == \E r \in Requests : PostActivityEnds(r)

SpecActivity == Init /\ [][Next \/ NextActivity]_vars

\* Two flows in flight together; credentials required and no default JWT.
InitConcurrent ==
    \E s \in ForwarderSettings :
        /\ s.require_user_jwt
        /\ s.default_user_jwt = ""
        /\ Constructed(s, "ForwarderAddon", Requests)

SpecConcurrent == InitConcurrent /\ [][Next]_vars

\* Either hook, one flow at a time.
InitForwarders ==
    \E s \in ForwarderSettings, h \in {"ForwarderAddon", "addon"} :
        Constructed(s, h, {"r1"})

NextAddon ==
    \/ \E r \in Requests : AddonRequest(r)
    \/ \E r \in Requests : AddonAcquireSemaphore(r)
    \/ \E r \in Requests : AddonGetProxyReturns(r)
    \/ \E r \in Requests : AddonUpstreamReturns(r)

\* What the event loop does for a flow once the hook is running for it.
HandlerStep(r) ==
    \/ AcquireSemaphore(r) \/ GetProxyReturns(r) \/ UpstreamReturns(r)
    \/ AddonAcquireSemaphore(r) \/ AddonGetProxyReturns(r)
    \/ AddonUpstreamReturns(r)

\* Two flows and one slot.
InitWaiting ==
    \E s \in ForwarderSettings :
        /\ s.require_user_jwt
        /\ s.default_user_jwt = ""
        /\ s.max_concurrent_requests = 1
        /\ Constructed(s, "ForwarderAddon", Requests)

\* The event loop resumes every ready task and the awaited calls come back,
\* so a flow inside the block leaves it.
SpecConcurrentFair ==
    /\ InitWaiting
    /\ [][Next]_vars
    /\ \A r \in Requests : WF_vars(HandlerStep(r))

\* The event loop resumes every ready task, and the awaited calls come back
\* (with a result or an error) within settings.httpx_timeout.
SpecForwarders ==
    /\ InitForwarders
    /\ [][Next \/ NextAddon]_vars
    /\ \A r \in Requests : WF_vars(HandlerStep(r))

\* The blacklist cache on its own: no flow is served.
InitBlacklist == \E s \in CacheSettings : Constructed(s, "ForwarderAddon", {})

NextBlacklist ==
    \/ \E t \in RefreshCalls : RefreshStarts(t)
    \/ \E t \in RefreshCalls : EnsureFresh(t)
    \/ \E t \in RefreshCalls : FetchReturns(t)
    \/ \E t \in RefreshCalls : RefreshLocks(t)
    \/ \E t \in RefreshCalls : WritePatterns(t)
    \/ \E t \in RefreshCalls : WritePatternData(t)
    \/ \E t \in RefreshCalls : WriteLastRefresh(t)
    \/ IsBlacklistedCalled
    \/ CheckLocks
    \/ CopyPatterns
    \/ CopyPatternData
    \/ Tick

SpecBlacklist == InitBlacklist /\ [][NextBlacklist]_vars

\* One flow served while the cache's refresh() calls run beside it.
InitEnsureFresh ==
    \E s \in SettingsDomain :
        /\ s.fallback_strategy = s.rotation_strategy
        /\ s.retry_count = 0
        /\ s.max_concurrent_requests = 1
        /\ s.require_user_jwt
        /\ s.default_user_jwt = ""
        /\ Constructed(s, "ForwarderAddon", {"r1"})

NextEnsureFresh ==
    \/ \E r \in Requests : Request(r)
    \/ \E r \in Requests : AcquireSemaphore(r)
    \/ \E r \in Requests : GetProxyReturns(r)
    \/ \E r \in Requests : UpstreamReturns(r)
    \/ \E t \in RefreshCalls : RefreshStarts(t)
    \/ \E t \in RefreshCalls : FetchReturns(t)
    \/ \E t \in RefreshCalls : RefreshLocks(t)
    \/ \E t \in RefreshCalls : WritePatterns(t)
    \/ \E t \in RefreshCalls : WritePatternData(t)
    \/ \E t \in RefreshCalls : WriteLastRefresh(t)
    \/ Tick

SpecEnsureFresh == InitEnsureFresh /\ [][NextEnsureFresh]_vars

\* The addon's life: running(), the auto-refresh task, done().
NextAutoRefresh ==
    \/ Running
    \/ StartAutoRefresh
    \/ LoopSleeps
    \/ LoopWakes
    \/ LoopRefreshReturns
    \/ LoopCancelled
    \/ StopAutoRefresh
    \/ \E t \in RefreshCalls : FetchReturns(t)
    \/ \E t \in RefreshCalls : RefreshLocks(t)
    \/ \E t \in RefreshCalls : WritePatterns(t)
    \/ \E t \in RefreshCalls : WritePatternData(t)
    \/ \E t \in RefreshCalls : WriteLastRefresh(t)
    \/ Tick

SpecAutoRefresh == InitBlacklist /\ [][NextAutoRefresh]_vars

\* ================================================================ properties
CallsAt(q, site) == {i \in 1..Len(q.calls) : q.calls[i].site = site}
PrimaryCalls(q) == Cardinality(CallsAt(q, "primary"))
FallbackCalls(q) == Cardinality(CallsAt(q, "fallback"))
PrimaryCall(q) ==
    [strategy |-> settings.rotation_strategy, site |-> "primary",
     user_jwt |-> q.user_jwt]
FallbackCall(q) ==
    [strategy |-> settings.fallback_strategy, site |-> "fallback",
     user_jwt |-> q.user_jwt]
\* The step in which the flow's get_proxy call came back with None.
NoProxyStep(r) ==
    req[r].pc = "get_proxy" /\ req'[r] # req[r] /\ req'[r].pc # "upstream"
\* The step in which the flow's upstream call failed / succeeded.
UpstreamFailedStep(r) ==
    req[r].pc = "upstream" /\ req'[r] # req[r] /\ req'[r].response.kind # "relay"
UpstreamSucceededStep(r) ==
    req[r].pc = "upstream" /\ req'[r].response.kind = "relay"
Finished(q) == q.pc = "done"

\* C1: a request whose target url matches a pattern of the snapshot that is
\* current when the blacklist is checked is answered 403 and finishes there:
\* it never acquires a rate-limit slot and never makes a proxy-issuing call.
C1_BlacklistedRejected ==
    /\ [][\A r \in Requests :
            ( /\ req[r].pc = "idle"
              /\ req'[r].ensure_called
              /\ \E i \in 1..Len(patterns) :
                    Search(patterns[i], req'[r].target_url) )
            => /\ req'[r].response = Synthetic(403)
               /\ Finished(req'[r])]_vars
    /\ [](\A r \in Requests :
            req[r].response = Synthetic(403)
            => /\ Finished(req[r])
               /\ req[r].calls = <<>>
               /\ req[r].acquires = 0)
    /\ [][\A r \in Requests : Finished(req[r]) => req'[r] = req[r]]_vars

C1_Witness ==
    /\ patterns = <<PatFacebook>>
    /\ req["r1"].target_url = UrlFacebook
    /\ req["r1"].response = Synthetic(403)

C3_NoProxyAbandonsPrimary ==
    [][\A r \in Requests :
         /\ (NoProxyStep(r) /\ req[r].site = "primary")
            => IF settings.fallback_strategy # settings.rotation_strategy
               THEN /\ req'[r].pc = "get_proxy"
                    /\ req'[r].site = "fallback"
                    /\ req'[r].calls = Append(req[r].calls, FallbackCall(req[r]))
               ELSE /\ Finished(req'[r])
                    /\ req'[r].response = Synthetic(502)
                    /\ req'[r].calls = req[r].calls
         /\ req[r].site = "fallback"
            => /\ req'[r].site = "fallback"
               /\ PrimaryCalls(req'[r]) = PrimaryCalls(req[r])]_vars

C3_Witness ==
    /\ settings.retry_count = 1
    /\ req["r1"].site = "fallback"
    /\ PrimaryCalls(req["r1"]) = 1

\* C4: a fallback call is made only when the primary strategy has ended with
\* no success and the fallback strategy differs from the primary; there is at
\* most one, it uses the fallback strategy, and no call follows it.
C4_FallbackOnce ==
    /\ [](\A r \in Requests :
            /\ FallbackCalls(req[r]) <= 1
            /\ FallbackCalls(req[r]) = 1
               => /\ settings.fallback_strategy # settings.rotation_strategy
                  /\ req[r].calls[Len(req[r].calls)] = FallbackCall(req[r]))
    /\ [][\A r \in Requests :
            FallbackCalls(req'[r]) > FallbackCalls(req[r])
            => /\ req[r].site = "primary"
               /\ req'[r].response = NoResponse
               /\ \/ NoProxyStep(r)
                  \/ /\ UpstreamFailedStep(r)
                     /\ PrimaryCalls(req[r]) = settings.retry_count + 1]_vars

C4_Witness ==
    /\ req["r1"].site = "fallback"
    /\ req["r1"].pc = "get_proxy"
    /\ FallbackCalls(req["r1"]) = 1
    /\ PrimaryCalls(req["r1"]) = settings.retry_count + 1

\* C5: when every one of the retry_count + 1 primary attempts had a proxy and
\* failed and the fallback attempt succeeds, the request is relayed after
\* exactly retry_count + 2 proxy-issuing calls, the primary ones first.
C5_RetryThenFallback ==
    \A r \in Requests :
        ( /\ Finished(req[r])
          /\ req[r].response.kind = "relay"
          /\ req[r].site = "fallback"
          /\ req[r].last_proxy_info # None )
        => req[r].calls =
             [i \in 1..(settings.retry_count + 2) |->
                 IF i <= settings.retry_count + 1
                 THEN PrimaryCall(req[r]) ELSE FallbackCall(req[r])]

\* best, one retry, health_score: two timed-out attempts, then the relay.
C5_Witness ==
    /\ settings.rotation_strategy = "best"
    /\ settings.retry_count = 1
    /\ settings.fallback_strategy = "health_score"
    /\ Finished(req["r1"])
    /\ req["r1"].response.kind = "relay"
    /\ req["r1"].all_timeout
    /\ Len(req["r1"].calls) = 3

GatewayFailure(q) ==
    q.response.kind = "synthetic" /\ q.response.status \in {502, 504}
PrimaryEndedStep(r) ==
    \/ NoProxyStep(r)
    \/ UpstreamFailedStep(r) /\ PrimaryCalls(req[r]) = settings.retry_count + 1

\* C6 as stated: a 502/504 is answered only after retry_count + 1 primary
\* attempts and the fallback attempt.
C6_Original ==
    \A r \in Requests :
        GatewayFailure(req[r])
        => /\ PrimaryCalls(req[r]) = settings.retry_count + 1
           /\ FallbackCalls(req[r]) = 1

\* C6 (amended): a 502/504 is answered only once the primary strategy has
\* ended (retry_count + 1 failed attempts, or a proxy-issuing call that found
\* no proxy) and, when the fallback strategy differs from the primary, the one
\* fallback attempt has failed too; with equal strategies there is none.
C6_FailureOnlyAfterExhaustion ==
    /\ [](\A r \in Requests :
            GatewayFailure(req[r])
            => /\ Finished(req[r])
               /\ PrimaryCalls(req[r]) >= 1
               /\ FallbackCalls(req[r]) =
                     IF settings.fallback_strategy # settings.rotation_strategy
                     THEN 1 ELSE 0)
    /\ [][\A r \in Requests :
            /\ (GatewayFailure(req'[r]) /\ ~GatewayFailure(req[r]))
               => \/ /\ req[r].site = "fallback"
                     /\ NoProxyStep(r) \/ UpstreamFailedStep(r)
                  \/ /\ req[r].site = "primary"
                     /\ settings.fallback_strategy = settings.rotation_strategy
                     /\ PrimaryEndedStep(r)
            /\ (req[r].site = "primary" /\ req'[r].site = "fallback")
               => PrimaryEndedStep(r)]_vars

\* A 502 after one primary call out of two: the call found no proxy, and the
\* fallback attempt failed.
C6_Witness ==
    /\ settings.retry_count = 1
    /\ req["r1"].response = Synthetic(502)
    /\ PrimaryCalls(req["r1"]) = 1
    /\ FallbackCalls(req["r1"]) = 1

OutcomeIn(q, codes) ==
    \/ q.response.kind = "relay"
    \/ q.response.kind = "synthetic" /\ q.response.status \in codes

C8_TimeoutIs504 ==
    \A r \in Requests :
        ( /\ Finished(req[r])
          /\ req[r].response.kind = "synthetic"
          /\ req[r].calls # <<>>
          /\ req[r].all_timeout )
        => req[r].response.status = 504

\* C9: no credential on the request while credentials are required: 401
\* before ensure_fresh, the semaphore and any proxy-issuing call; otherwise
\* every proxy-issuing call carries the client's credential, else the default.
C9_CredentialGate ==
    \A r \in Requests :
        req[r].pc # "idle"
        => IF req[r].client_auth = "" /\ settings.require_user_jwt
           THEN /\ req[r].response = Synthetic(401)
                /\ ~req[r].ensure_called
                /\ req[r].acquires = 0
                /\ req[r].calls = <<>>
           ELSE \A i \in 1..Len(req[r].calls) :
                   req[r].calls[i].user_jwt =
                      IF req[r].client_auth # "" THEN req[r].client_auth
                      ELSE settings.default_user_jwt

InLoop(q) == q.pc \in {"get_proxy", "upstream"}
Holding(q) == q.acquires > q.releases

\* C10: the flows between acquiring and releasing the semaphore are never
\* more than max_concurrent_requests, and only they are in the attempt loop;
\* with capacity 1, while one flow is in the loop the other has made no
\* proxy-issuing call yet or has already left the loop.
C10_ConcurrencyCeiling ==
    /\ Cardinality({r \in Requests : Holding(req[r])})
          <= settings.max_concurrent_requests
    /\ \A r \in Requests :
          /\ InLoop(req[r]) => Holding(req[r])
          /\ req[r].calls # <<>> => req[r].acquires = 1
    /\ settings.max_concurrent_requests = 1
       => \A r, o \in Requests :
             (r # o /\ InLoop(req[r]))
             => req[o].calls = <<>> \/ ~Holding(req[o])

C10_Witness ==
    /\ settings.max_concurrent_requests = 1
    /\ req["r1"].pc = "upstream"
    /\ req["r2"].pc = "semaphore"

\* C11: a flow that acquired a slot gives it back exactly once when it leaves
\* the attempt loop, whichever way (relay, every attempt failed, an exception
\* answered 500 by the older hook); the free slots are always the capacity
\* less the flows inside the block, so the full capacity when none is inside.
C11_SlotReleasedOnce ==
    /\ \A r \in Requests :
          /\ req[r].releases <= req[r].acquires
          /\ req[r].acquires <= 1
          /\ Finished(req[r]) => req[r].releases = req[r].acquires
          /\ Holding(req[r]) <=> InLoop(req[r])
    /\ semaphore = settings.max_concurrent_requests
                      - Cardinality({r \in Requests : Holding(req[r])})
    /\ (\A r \in Requests : ~InLoop(req[r]))
       => semaphore = settings.max_concurrent_requests

C11_Witness ==
    /\ handler = "ForwarderAddon"
    /\ Finished(req["r1"])
    /\ req["r1"].response = Synthetic(502)
    /\ Len(req["r1"].calls) = 2
    /\ req["r1"].acquires = 1
    /\ req["r1"].releases = 1
    /\ semaphore = settings.max_concurrent_requests

\* C12: a flow that reaches the semaphore is never answered there: it keeps
\* no response while it waits, and (the flows holding a slot leaving the loop)
\* it acquires a slot and makes its first proxy-issuing call.
C12_WaitingAcquires ==
    /\ [](\A r \in Requests :
            req[r].pc = "semaphore"
            => /\ req[r].response = NoResponse
               /\ req[r].calls = <<>>)
    /\ [][\A r \in Requests :
            (req[r].pc = "semaphore" /\ req'[r] # req[r])
            => /\ req'[r].pc = "get_proxy"
               /\ req'[r].acquires = 1
               /\ req'[r].calls = <<PrimaryCall(req[r])>>]_vars
    /\ \A r \in Requests :
          (req[r].pc = "semaphore") ~> (req[r].acquires = 1)

\* The second flow found the only slot taken, and has since acquired it.
C12_Witness ==
    /\ settings.max_concurrent_requests = 1
    /\ req["r2"].waited
    /\ req["r2"].pc = "get_proxy"
    /\ Len(req["r2"].calls) = 1
    /\ Finished(req["r1"])

\* C13: a flow that ends (relay, 401, 403 or 502) has created exactly one
\* activity record, with the status of the response it returns; until it ends
\* it has created none, so a failed attempt followed by another creates none.
C13_OneActivityRecord ==
    /\ [](\A r \in Requests :
            IF Finished(req[r])
            THEN /\ Len(req[r].activity) = 1
                 /\ req[r].activity[1].status_code = req[r].response.status
            ELSE req[r].activity = <<>>)
    /\ [][\A r \in Requests :
            ( /\ UpstreamFailedStep(r) \/ NoProxyStep(r)
              /\ req'[r].pc = "get_proxy" )
            => req'[r].activity = <<>>]_vars

\* Three failed attempts (two primary, one fallback), one record, 502.
C13_Witness ==
    /\ Finished(req["r1"])
    /\ Len(req["r1"].calls) = 3
    /\ req["r1"].last_proxy_info # None
    /\ req["r1"].response = Synthetic(502)
    /\ Len(req["r1"].activity) = 1
    /\ req["r1"].activity[1].status_code = 502

\* C14: the response is chosen when the activity task is created, before the
\* task has run; the task's end, with an answer or an exception, changes no
\* flow (response, position, slots), raises nothing and is not repeated.
C14_ActivityNeverAffectsOutcome ==
    /\ [](\A r \in Requests :
            /\ req[r].activity # <<>>
               => Finished(req[r]) /\ req[r].response # NoResponse
            /\ Len(delivered[r]) <= Len(req[r].activity)
            /\ \A i \in 1..Len(delivered[r]) : ~delivered[r][i].raised)
    /\ [][\A r \in Requests :
            /\ Len(req'[r].activity) > Len(req[r].activity)
               => /\ delivered'[r] = delivered[r]
                  /\ Finished(req'[r])
            /\ delivered'[r] # delivered[r]
               => /\ req' = req
                  /\ semaphore' = semaphore
                  /\ Len(delivered'[r]) = Len(delivered[r]) + 1
            /\ req[r].response # NoResponse
               => req'[r].response = req[r].response]_vars

\* The POST of the record of a relayed 200 failed; the flow keeps its relay.
C14_Witness ==
    /\ Finished(req["r1"])
    /\ req["r1"].response = Relayed(200)
    /\ delivered["r1"] = <<[raised |-> FALSE, stored |-> FALSE]>>

\* C15: whatever refresh() calls run beside it, an is_blacklisted call works
\* on one complete snapshot: the compiled patterns and the rule data it copied
\* were written by the same refresh() (or are both the initial empty lists).
C15_OneSnapshot ==
    (check.pc = "done" /\ check.url # "")
    => /\ check.from.patterns = check.from.pattern_data
       /\ check.patterns = CompilePatterns(check.pattern_data)

\* The call arrived while a refresh() held the lock and saw t2's snapshot.
C15_Witness ==
    /\ check.pc = "done"
    /\ check.overlapped
    /\ check.from = [patterns |-> "t2", pattern_data |-> "t2"]
    /\ check.result.matched
    /\ refreshing["t1"].pc = "done"
    /\ refreshing["t1"].status = "200"

\* The compiled patterns of the copy that match the url, by position.
Matching(pats, url) == {i \in 1..Len(pats) : Search(pats[i], url)}
FirstMatching(pats, url) ==
    CHOOSE i \in Matching(pats, url) : \A k \in Matching(pats, url) : i <= k

\* C16: is_blacklisted(url) returns (True, p) with p the pattern string of the
\* first compiled pattern, in snapshot order, that matches the url, and
\* (False, None) when none matches or the url is empty.
C16_FirstMatchPattern ==
    check.pc = "done"
    => IF check.url = "" \/ Matching(check.patterns, check.url) = {}
       THEN check.result = [matched |-> FALSE, pattern |-> None]
       ELSE /\ check.result.matched
            /\ check.result.pattern =
                  check.patterns[FirstMatching(check.patterns, check.url)]

\* C17: in a snapshot fetched with invalid patterns the compiled patterns are
\* exactly the valid ones, the valid rules go on matching, and the pattern an
\* is_blacklisted call returns is never an invalid one.
C17_InvalidPatternDropped ==
    (check.pc = "done" /\ check.url # "")
    => /\ check.patterns = SelectSeq(check.pattern_data, Compiles)
       /\ check.result.matched
          <=> \E i \in 1..Len(check.pattern_data) :
                 /\ Compiles(check.pattern_data[i])
                 /\ Search(check.pattern_data[i], check.url)
       /\ check.result.matched => Compiles(check.result.pattern)

\* The step in which the refresh() call t returns.
RefreshReturns(t) == refreshing[t].pc # "done" /\ refreshing'[t].pc = "done"
Snapshot == <<patterns, pattern_data, last_refresh>>

\* C18: a refresh() whose fetch failed (an error status or an exception)
\* returns at once, without raising and without writing the compiled
\* patterns, the rule data or the last-refresh time.
C18_FailedFetchKeepsSnapshot ==
    /\ [][\A t \in RefreshCalls :
            ( /\ refreshing[t].pc = "fetch"
              /\ refreshing'[t].pc # "fetch"
              /\ refreshing'[t].status # "200" )
            => /\ RefreshReturns(t)
               /\ Snapshot' = Snapshot]_vars
    /\ [](\A t \in RefreshCalls :
            refreshing[t].status \notin {"", "200"}
            => refreshing[t].pc = "done")

\* A snapshot loaded by t1 is there after t2's fetch timed out.
C18_Witness ==
    /\ refreshing["t1"].pc = "done"
    /\ refreshing["t1"].status = "200"
    /\ refreshing["t2"].pc = "done"
    /\ refreshing["t2"].status = "TimeoutException"
    /\ patterns = <<PatFacebook>>
    /\ pattern_data = <<PatInvalid, PatFacebook>>
    /\ last_refresh = StartTime + 1

\* C19: when a refresh() whose fetch succeeded returns, the snapshot is the
\* fetched rule set, an empty one included, and the last-refresh time is the
\* time of that refresh.
C19_SnapshotIsFetchedSet ==
    [][\A t \in RefreshCalls :
         (RefreshReturns(t) /\ refreshing'[t].status = "200")
         => /\ patterns' = CompilePatterns(refreshing'[t].rules)
            /\ pattern_data' = refreshing'[t].rules
            /\ last_refresh' = now']_vars

Elapsed == now - last_refresh

RequestChecks(r) == req[r].pc = "idle" /\ req'[r].ensure_called
Stale == Elapsed >= settings.blacklist_refresh_seconds

\* C21: on the request path ensure_fresh() on a stale cache creates one
\* refresh() call, which has only started its fetch when the hook goes on; the
\* snapshot is untouched by that step and the blacklist check is made on it.
\* On a fresh cache no refresh() call is created.
C21_EnsureFreshDoesNotWait ==
    [][\A r \in Requests :
         RequestChecks(r)
         => /\ Snapshot' = Snapshot
            /\ IF Stale
               THEN \E t \in RefreshCalls :
                       /\ refreshing[t].pc = "idle"
                       /\ refreshing'[t] =
                             [refreshing[t] EXCEPT !.pc = "fetch",
                                                   !.by = "ensure_fresh"]
                       /\ \A u \in RefreshCalls \ {t} :
                             refreshing'[u] = refreshing[u]
               ELSE refreshing' = refreshing
            /\ req'[r].response = Synthetic(403)
               <=> IsBlacklisted(patterns, pattern_data,
                                 req'[r].target_url).matched
            /\ req'[r].response # Synthetic(403)
               => req'[r].pc = "semaphore"]_vars

\* The flow has its relayed answer while the refresh() that its ensure_fresh
\* created is still fetching.
C21_Witness ==
    /\ Finished(req["r1"])
    /\ req["r1"].response = Relayed(200)
    /\ \E t \in RefreshCalls :
          /\ refreshing[t].by = "ensure_fresh"
          /\ refreshing[t].pc = "fetch"
    /\ last_refresh = StartTime
    /\ now > StartTime

\* C22: the refresh_loop task calls refresh() after each sleep of the TTL,
\* whatever the refresh before did, until stop_auto_refresh() is called; from
\* then on it starts no refresh() and swaps no snapshot, and the stop itself
\* is a single step that waits for nothing.
C22_AutoRefreshUntilStopped ==
    [][/\ (auto.task = "sleep" /\ auto'.task = "refresh")
          => now - auto.slept_at >= settings.blacklist_refresh_seconds
       /\ (auto.task = "refresh" /\ auto'.task # "refresh" /\ ~auto.stopped)
          => auto'.task = "sleep"
       /\ auto.stopped
          => /\ auto'.task = "refresh" => auto.task = "refresh"
             /\ origin'.patterns = "refresh_loop"
                => Snapshot' = Snapshot]_vars

\* ------------------------------------------------ the rotation selector
\* The proxy manager alone over the table ps: no flow reaches the forwarder.
InitManager(ps) ==
    /\ ForwarderConstructed(CHOOSE s \in ForwarderSettings : TRUE,
                            "ForwarderAddon", {})
    /\ ManagerConstructed(ps)
    /\ ProberConstructed(MaxWorkers)
    /\ CheckerConstructed(<<>>)
    /\ LimiterConstructed(1)

\* Tables whose rows differ in is_working alone.
WorkingTables ==
    {[p \in ProxyIds |-> [NewProxy EXCEPT !.is_working = p \in W]] :
        W \in SUBSET ProxyIds}

\* One client asking for round_robin again and again, the table untouched
\* in between.
InitRoundRobin == \E ps \in WorkingTables : InitManager(ps)

NextRoundRobin ==
    \/ \E gate \in RouteGates :
          GetProxyByStrategy("c1", Some("round_robin"), gate, "health_score")
    \/ RoundRobinPicks("c1")
    \/ RoundRobinLoads("c1")
    \/ RoundRobinStores("c1")
    \/ SelectionReturns("c1")

SpecRoundRobin == InitRoundRobin /\ [][NextRoundRobin]_vars

\* The k-th smallest identifier of the set W.
Ascending(W, k) == CHOOSE p \in W : Cardinality({q \in W : q < p}) = k - 1

\* C23: from a fresh selector, the round_robin selections over a fixed
\* working set of N proxies return, up to the (N+1)-th, the proxies in
\* ascending identifier order: the first N return each proxy once and the
\* (N+1)-th returns the lowest identifier again.
C23_RoundRobinVisitsEachOnce ==
    LET W == Working(proxies)
        N == Cardinality(W)
    IN /\ \A k \in 1..Len(served) :
             /\ served[k].working = W
             /\ k <= N + 1 => served[k].proxy = Ascending(W, ((k - 1) % N) + 1)
       /\ Len(served) >= N => {served[k].proxy : k \in 1..N} = W
       /\ (N > 0 /\ Len(served) > N) => served[N + 1].proxy = Ascending(W, 1)

\* Three working proxies were served in turn and the fourth selection came
\* back to proxy 1.
C23_Witness ==
    /\ Working(proxies) = ProxyIds
    /\ Len(served) = 4
    /\ <<served[1].proxy, served[2].proxy, served[3].proxy, served[4].proxy>>
          = <<1, 2, 3, 1>>
    /\ round_robin_index = 4

\* Two clients at once, asking for round_robin or lru, while health checks
\* find working proxies dead. Proxies 1 and 2 work at the start.
InitSelectors ==
    InitManager([p \in ProxyIds |->
                    [NewProxy EXCEPT !.is_working = p \in {1, 2}]])

NextSelectors ==
    \/ \E c \in Callers, name \in {"round_robin", "lru"} :
          GetProxyByStrategy(c, Some(name), "pass", "health_score")
    \/ \E c \in Callers : RoundRobinPicks(c)
    \/ \E c \in Callers : RoundRobinLoads(c)
    \/ \E c \in Callers : RoundRobinStores(c)
    \/ \E c \in Callers : SelectionReturns(c)
    \/ \E p \in Working(proxies) : UpdateProxyAfterTest(p, FALSE, None)

SpecSelectors == InitSelectors /\ [][NextSelectors]_vars

\* The round_robin selections that have read the counter and the ones that
\* have also stored it.
PastPick ==
    {c \in Callers : /\ selecting[c].strategy = "round_robin"
                     /\ selecting[c].pc \in {"load", "store",
                                              "update_last_used"}}

PastStore ==
    {c \in PastPick : selecting[c].pc = "update_last_used"}

\* The counter values the round_robin selections have used so far.
UsedIndexes ==
    {served[k].index : k \in 1..Len(served)}
        \cup {selecting[c].index : c \in PastPick}

\* C24: the round_robin selections, however they interleave, each use a
\* counter value of their own and leave the counter higher by their number;
\* the counter never decreases, only a round_robin selection over a
\* non-empty working set changes it, and the position it picks lies within
\* the list that selection read.
C24_CounterUnderLock ==
    [][/\ Cardinality(UsedIndexes') = Len(served') + Cardinality(PastPick')
       /\ round_robin_index' = Len(served') + Cardinality(PastStore')
       /\ round_robin_index' >= round_robin_index
       /\ round_robin_index' # round_robin_index
          => \E c \in Callers :
                /\ selecting[c].strategy = "round_robin"
                /\ selecting[c].pc = "store"
                /\ selecting'[c].pc = "update_last_used"
                /\ selecting[c].working # <<>>
       /\ \A c \in PastPick' :
             LET call == selecting'[c]
                 position == (call.index % Len(call.working)) + 1
             IN /\ call.working # <<>>
                /\ position \in 1..Len(call.working)
                /\ The(call.proxy) \in
                       {call.working[i] : i \in 1..Len(call.working)}]_vars

\* Both clients' round_robin selections are in flight together, past their
\* increments: they used the values 0 and 1 and the counter stands at 2.
C24_Witness ==
    /\ PastStore = Callers
    /\ {selecting[c].index : c \in Callers} = {0, 1}
    /\ round_robin_index = 2
    /\ served = <<>>

\* Tables whose rows differ in is_working and latency.
RotationTables ==
    [ProxyIds ->
        {[NewProxy EXCEPT !.is_working = w, !.latency = l] :
            w \in BOOLEAN, l \in {None, Some(50), Some(200)}}]

\* settings.rotation_strategy as config.py sets it by default.
ConfiguredStrategy == "health_score"

\* One client calling GET /proxy with every strategy parameter, one call
\* after the other.
InitRotation == \E ps \in RotationTables : InitManager(ps)

NextRotation ==
    \/ \E strategy \in RequestedStrategies :
          GetProxyByStrategy("c1", strategy, "pass", ConfiguredStrategy)
    \/ \E gate \in RouteGates \ {"pass"} :
          GetProxyByStrategy("c1", None, gate, ConfiguredStrategy)
    \/ RoundRobinPicks("c1")
    \/ RoundRobinLoads("c1")
    \/ RoundRobinStores("c1")
    \/ SelectionReturns("c1")

SpecRotation == InitRotation /\ [][NextRotation]_vars

\* The same while health checks find working proxies dead.
NextHealthChecks ==
    \E p \in Working(proxies) : UpdateProxyAfterTest(p, FALSE, None)

InitRotationChecked ==
    \E ps \in RotationTables :
        /\ \A p \in ProxyIds : ps[p].latency \in {None, Some(50)}
        /\ InitManager(ps)

SpecRotationChecked ==
    InitRotationChecked /\ [][NextRotation \/ NextHealthChecks]_vars

\* The step in which the call of c, made with the strategy name, picks its
\* proxy from the working proxies it has just read.
PickStep(c, name) ==
    /\ selecting[c].pc = "idle"
    /\ selecting'[c].pc = "update_last_used"
    /\ selecting'[c].strategy = name

Members(ws) == {ws[i] : i \in 1..Len(ws)}

\* C26: a best selection returns a proxy of lowest latency among the working
\* proxies that have a latency, and the first proxy of the list it read only
\* when none of them has one.
C26_BestLowestLatency ==
    [][\A c \in Callers :
          PickStep(c, "best") =>
             LET ws == selecting'[c].working
                 p == The(selecting'[c].proxy)
                 with_latency == {q \in Members(ws) : proxies[q].latency # None}
             IN IF with_latency # {}
                THEN /\ p \in with_latency
                     /\ \A q \in with_latency :
                           The(proxies[p].latency) <= The(proxies[q].latency)
                ELSE p = ws[1]]_vars

\* best has picked proxy 3, the fastest, from a list that starts with a
\* proxy without latency and goes on with a slower one.
C26_Witness ==
    /\ selecting["c1"].pc = "update_last_used"
    /\ selecting["c1"].strategy = "best"
    /\ selecting["c1"].working = <<1, 2, 3>>
    /\ proxies[1].latency = None
    /\ proxies[2].latency = Some(200)
    /\ proxies[3].latency = Some(50)
    /\ selecting["c1"].proxy = Some(3)

\* C27: a health_score selection returns a proxy whose score is the highest
\* of the list it read, and of the proxies sharing that score the one that
\* comes first in the list.
C27_HealthScoreFirstBest ==
    [][\A c \in Callers :
          PickStep(c, "health_score") =>
             LET ws == selecting'[c].working
                 p == The(selecting'[c].proxy)
                 Score(q) == CalculateHealthScore(proxies[q], now)
             IN \E i \in 1..Len(ws) :
                   /\ ws[i] = p
                   /\ \A j \in 1..Len(ws) : Score(ws[j]) <= Score(p)
                   /\ \A j \in 1..(i - 1) : Score(ws[j]) < Score(p)]_vars

\* health_score has picked proxy 2 from the list 3, 2, 1 in which proxies 2
\* and 1 share the highest score.
C27_Witness ==
    /\ selecting["c1"].pc = "update_last_used"
    /\ selecting["c1"].strategy = "health_score"
    /\ selecting["c1"].working = <<3, 2, 1>>
    /\ CalculateHealthScore(proxies[1], now)
          = CalculateHealthScore(proxies[2], now)
    /\ CalculateHealthScore(proxies[3], now)
          < CalculateHealthScore(proxies[2], now)
    /\ selecting["c1"].proxy = Some(2)

\* The step in which GET /proxy is answered or goes on to pick, for a call
\* whose strategy parameter is none of the five names.
UnknownNameStep(c) ==
    /\ selecting[c].pc = "idle"
    /\ selecting'[c] # selecting[c]
    /\ selecting'[c].strategy \notin StrategyNames \cup {""}

\* C28: a selection asked for under a name that is none of the five is no
\* error: over no working proxy it is NotFound, and otherwise it picks what
\* health_score picks from the same list and goes on to mark it used.
C28_UnknownNameIsHealthScore ==
    [][\A c \in Callers :
          UnknownNameStep(c) =>
             LET call == selecting'[c]
             IN IF Working(proxies) = {}
                THEN call.response = "404"
                ELSE /\ call.pc = "update_last_used"
                     /\ Members(call.working) = Working(proxies)
                     /\ call.proxy = Some(GetByHealthScore(call.working,
                                                            proxies, now))
          ]_vars

\* The answers GET /proxy gives before any selection is made.
Refusals == {"401", "422", "429", "403"}

\* C29: whatever the strategy, a selection reads exactly the proxies that
\* are working at that moment, picks one of those it read and, when it
\* returns, has set last_used to now on that proxy, every other field and
\* every other proxy being as before; over no working proxy it is NotFound;
\* no other step of a selection changes a proxy.
C29_MarksOnlyTheChosen ==
    [][\A c \in Callers :
          LET call == selecting[c]
              after == selecting'[c]
          IN /\ (call.pc = "idle" /\ after # call
                    /\ after.response \notin Refusals)
                => /\ Members(after.working) = Working(proxies)
                   /\ Working(proxies) = {}
                      <=> (after.pc = "idle" /\ after.response = "404")
                   /\ proxies' = proxies
             /\ (after.proxy # None /\ after.pc # "idle")
                => The(after.proxy) \in Members(after.working)
             /\ (call.pc \in {"pick", "load", "store"} /\ after # call)
                => proxies' = proxies
             /\ (call.pc = "update_last_used" /\ after # call)
                => LET p == The(call.proxy)
                   IN /\ p \in Members(call.working)
                      /\ after.response = "200"
                      /\ after.proxy = call.proxy
                      /\ proxies'[p].last_used = Some(now)
                      /\ [proxies'[p] EXCEPT !.last_used =
                                                proxies[p].last_used]
                            = proxies[p]
                      /\ \A q \in ProxyIds \ {p} :
                            proxies'[q] = proxies[q]]_vars

\* A lru selection returned proxy 2, which a health check found dead after
\* the selection had read it: proxy 2 alone is marked used.
C29_Witness ==
    /\ selecting["c1"].response = "200"
    /\ selecting["c1"].strategy = "lru"
    /\ selecting["c1"].proxy = Some(2)
    /\ ~proxies[2].is_working
    /\ proxies[2].last_used = Some(now)
    /\ proxies[1].is_working /\ proxies[1].last_used = None
    /\ proxies[3].is_working /\ proxies[3].last_used = None

\* One client asking for lru again and again while time passes.
NextLru ==
    \/ GetProxyByStrategy("c1", Some("lru"), "pass", ConfiguredStrategy)
    \/ SelectionReturns("c1")
    \/ Tick

SpecLru == InitRoundRobin /\ [][NextLru]_vars

\* The proxy q was used no later than the proxy p, never used being the
\* earliest.
UsedNoLater(q, p) ==
    \/ proxies[q].last_used = None
    \/ /\ proxies[p].last_used # None
       /\ The(proxies[q].last_used) <= The(proxies[p].last_used)

\* C25: a lru selection returns a proxy of the list it read that was used
\* no later than any other of them, never used being the earliest, and when
\* it returns that proxy's last_used is now; so the lru selection that
\* follows a lru selection returns another proxy whenever the list holds one
\* that was never used or was used before the proxy just returned.
C25_LruLeastRecentlyUsed ==
    [][\A c \in Callers :
          /\ PickStep(c, "lru") =>
                LET ws == selecting'[c].working
                    p == The(selecting'[c].proxy)
                    first == selecting[c]
                IN /\ p \in Members(ws)
                   /\ \A q \in Members(ws) : UsedNoLater(p, q)
                   /\ (/\ first.strategy = "lru"
                       /\ first.response = "200"
                       /\ \E q \in Members(ws) \ {The(first.proxy)} :
                             ~UsedNoLater(The(first.proxy), q))
                      => p # The(first.proxy)
          /\ (/\ selecting[c].strategy = "lru"
              /\ selecting[c].pc = "update_last_used"
              /\ selecting'[c].pc = "idle")
             => proxies'[The(selecting[c].proxy)].last_used = Some(now)]_vars

\* Two lru selections at the same instant over three working proxies: one
\* returned proxy 1, the one after it returned proxy 2, proxy 3 is unused.
C25_Witness ==
    /\ Working(proxies) = ProxyIds
    /\ selecting["c1"].pc = "idle"
    /\ selecting["c1"].response = "200"
    /\ selecting["c1"].proxy = Some(2)
    /\ now = StartTime
    /\ proxies[1].last_used = Some(now)
    /\ proxies[2].last_used = Some(now)
    /\ proxies[3].last_used = None

\* ------------------------------------------------ the health score
\* Rows on both sides of every threshold of the score, their last check
\* dated back from the clock's start.
ScoredRows ==
    [is_working : BOOLEAN,
     latency : {None} \cup {Some(l) : l \in {0, 99, 100, 299, 300, 499, 500}},
     fail_count : {0, 1, 2, 3, 5, 6},
     last_checked : {None} \cup
         {Some(StartTime - age) :
             age \in {0, 3599, 3600, 24 * 3600 - 1, 24 * 3600,
                      168 * 3600 - 1, 168 * 3600}},
     last_used : {None}]

\* calculate_health_score applied to any such row: proxy 1 is the row and a
\* client lists the proxies.
InitHealthScore ==
    \E row \in ScoredRows :
        InitManager([p \in ProxyIds |-> IF p = 1 THEN row ELSE NewProxy])

NextHealthScore == \E c \in Callers : ListProxies(c)

SpecHealthScore == InitHealthScore /\ [][NextHealthScore]_vars

\* The score as the four factors add up for the row p checked at the time t.
StatedScore(p, t) ==
    LET latency_points ==
            IF p.latency = None THEN 15
            ELSE IF The(p.latency) < 100 THEN 30
            ELSE IF The(p.latency) < 300 THEN 20
            ELSE IF The(p.latency) < 500 THEN 10
            ELSE 5
        fail_points ==
            IF p.fail_count = 0 THEN 20
            ELSE IF p.fail_count \in 1..2 THEN 15
            ELSE IF p.fail_count \in 3..5 THEN 10
            ELSE 5
        recency_points ==
            IF p.last_checked = None THEN 1
            ELSE IF t - The(p.last_checked) < 3600 THEN 10
            ELSE IF t - The(p.last_checked) < 24 * 3600 THEN 7
            ELSE IF t - The(p.last_checked) < 7 * 24 * 3600 THEN 5
            ELSE 2
        sum == 40 + latency_points + fail_points + recency_points
    IN IF ~p.is_working THEN 0
       ELSE IF sum > 100 THEN 100 ELSE sum

\* C30: the score of a proxy that is not working is 0 whatever its other
\* fields; the score of a working one is 40 plus the points of its latency,
\* of its fail count and of the age of its last check, at most 100; and
\* computing the scores leaves every proxy as it was.
C30_HealthScore ==
    [][\A c \in Callers :
          (selecting[c].scores = <<>> /\ selecting'[c].scores # <<>>)
             => /\ proxies' = proxies
                /\ \A p \in ProxyIds :
                      selecting'[c].scores[p] = StatedScore(proxies[p], now)]_vars

\* A working proxy of latency 100 with 3 failures, checked exactly an hour
\* ago, is listed with 40 + 20 + 10 + 7, and a never tested one with 0.
C30_Witness ==
    /\ proxies[1] = [is_working |-> TRUE, latency |-> Some(100),
                     fail_count |-> 3,
                     last_checked |-> Some(StartTime - 3600),
                     last_used |-> None]
    /\ selecting["c1"].scores = <<77, 0, 0>>

\* Two rows alike in every field but fail_count, and a never tested third.
InitHealthScorePair ==
    \E row \in ScoredRows, fail_count \in {0, 1, 2, 3, 5, 6} :
        InitManager([p \in ProxyIds |->
                        IF p = 1 THEN row
                        ELSE IF p = 2
                        THEN [row EXCEPT !.fail_count = fail_count]
                        ELSE NewProxy])

SpecHealthScorePair == InitHealthScorePair /\ [][NextHealthScore]_vars

\* The rows p and q differ in fail_count at most.
SameButFailCount(p, q) ==
    [proxies[p] EXCEPT !.fail_count = proxies[q].fail_count] = proxies[q]

\* C31: the score listed for a working proxy is above 0 and at most 100,
\* and of two proxies alike in every other field the one with fewer
\* failures is never listed with the lower score.
C31_ScoreRangeAndOrder ==
    \A c \in Callers :
        selecting[c].scores # <<>> =>
            /\ \A p \in Working(proxies) :
                  /\ selecting[c].scores[p] > 0
                  /\ selecting[c].scores[p] <= 100
            /\ \A p, q \in Working(proxies) :
                  (/\ SameButFailCount(p, q)
                   /\ proxies[p].fail_count < proxies[q].fail_count)
                     => selecting[c].scores[p] >= selecting[c].scores[q]

\* Two working proxies alike but for 2 and 3 failures are listed, the
\* first with the higher score.
C31_Witness ==
    /\ selecting["c1"].scores # <<>>
    /\ {1, 2} \subseteq Working(proxies)
    /\ SameButFailCount(1, 2)
    /\ proxies[1].fail_count = 2
    /\ proxies[2].fail_count = 3
    /\ selecting["c1"].scores[1] > selecting["c1"].scores[2]

\* ------------------------------------------------ the health check batch
\* Both testers built with a pool of n threads over a table of new proxies.
InitProber ==
    \E n \in 1..MaxWorkers :
        /\ ForwarderConstructed(CHOOSE s \in ForwarderSettings : TRUE,
                                "ForwarderAddon", {})
        /\ ManagerConstructed([p \in ProxyIds |-> NewProxy])
        /\ ProberConstructed(n)
        /\ CheckerConstructed(<<>>)
        /\ LimiterConstructed(1)

\* The orders in which the table's rows are loaded, and what the probes of
\* a batch meet.
BatchOrders == {<<1, 2, 3>>, <<3, 1, 2>>}

BatchOutcomes ==
    {o \in ProbeOutcomes :
        o.kind \in {"200", "TimeoutException"} /\ o.elapsed = 50}

\* The scheduler's job alone: its batches and the probes of its pool.
NextBatch ==
    \/ \E ps \in BatchOrders : HealthCheckJob(ps)
    \/ WorkerStarts("scheduler")
    \/ \E p \in ProxyIds, o \in BatchOutcomes : ProbeReturns("scheduler", p, o)
    \/ \E p \in ProxyIds : ProbeRaises("scheduler", p)
    \/ \E p \in ProxyIds : BatchCollects(p)
    \/ JobApplies

SpecBatch == InitProber /\ [][NextBatch]_vars

\* A free thread takes queued work, a probe ends (httpx gives up after the
\* configured timeout), and as_completed yields what has finished.
FairBatch ==
    /\ WF_vars(WorkerStarts("scheduler"))
    /\ \A p \in ProxyIds :
          /\ WF_vars(\/ \E o \in BatchOutcomes : ProbeReturns("scheduler", p, o)
                     \/ ProbeRaises("scheduler", p))
          /\ WF_vars(BatchCollects(p))

SpecBatchFair == SpecBatch /\ FairBatch

\* The batch has returned its map to health_check_job.
BatchReturned == job.pc = "applying"

\* What the batch holds for proxy p is what p's own probe came to.
OwnResult(p) ==
    LET future == futures["scheduler"][p]
        result == The(job.results[p])
    IN /\ job.results[p] # None
       /\ result.proxy_id = p
       /\ future.state = "raised" =>
             /\ ~result.success
             /\ result.error = Some("Test execution error")
       /\ future.state = "returned" => result = The(future.result)

\* C32: a batch that has returned holds a result for every proxy it was
\* given, each the result of that proxy's own probe (a failure made up for
\* a probe whose execution raised), whatever the other probes came to; and
\* a batch that was started returns.
C32_BatchIsolatesFailures ==
    /\ [](BatchReturned =>
            /\ \A p \in ProxyIds : FutureDone(futures["scheduler"][p])
            /\ \A p \in ProxyIds : OwnResult(p))
    /\ [](\A p \in job.collected : OwnResult(p))
    /\ (job.pc = "collecting") ~> BatchReturned

\* A batch has returned in which the probe of proxy 1 raised, that of
\* proxy 2 timed out and that of proxy 3 succeeded.
C32_Witness ==
    /\ BatchReturned
    /\ futures["scheduler"][1].state = "raised"
    /\ ~The(job.results[1]).success
    /\ The(job.results[2]).error = Some("Connection timeout")
    /\ The(job.results[3]).success

\* ------------------------------------------------ both testers at work
\* What stops POST /proxies/{id}/test before its probe.
TestGates == {"pass", "401", "429"}

\* The proxies the clients ask to have tested.
TestedProxies == {1, 2}

\* The manual tests: the route, its pool and its probes.
NextTests ==
    \/ \E c \in Callers, p \in TestedProxies, gate \in TestGates :
          TestProxyById(c, p, gate)
    \/ WorkerStarts("route")
    \/ \E c \in Callers, o \in BatchOutcomes : ProbeReturns("route", c, o)
    \/ \E c \in Callers : ProbeRaises("route", c)
    \/ \E c \in Callers : TestReturns(c)

SpecTests == InitProber /\ [][NextTests]_vars

\* The scheduler's health checks with one client's manual tests of the
\* first proxy beside them.
NextProber ==
    \/ NextBatch
    \/ TestProxyById("c1", 1, "pass")
    \/ WorkerStarts("route")
    \/ \E o \in BatchOutcomes : ProbeReturns("route", "c1", o)
    \/ ProbeRaises("route", "c1")
    \/ TestReturns("c1")

SpecProber == InitProber /\ [][NextProber]_vars

\* The probes in flight: the calls that threads of either pool are running.
InFlight ==
    Cardinality(executor["scheduler"].running)
        + Cardinality(executor["route"].running)

\* C33: the probes in flight, the scheduler's and the manual ones together,
\* are never more than the configured size of the worker pool.
C33_InFlightWithinPool == InFlight <= max_workers

\* C34: once probe results have been applied to a proxy, its row shows the
\* last of them: checked, working exactly if the last probe succeeded, its
\* fail_count not negative and equal to the number of failed probes since
\* the last success, its latency that of the last successful probe.
C34_RowTellsTheProbes ==
    \A p \in ProxyIds :
        applied[p].count > 0 =>
            /\ proxies[p].last_checked # None
            /\ proxies[p].is_working = (applied[p].failures = 0)
            /\ proxies[p].fail_count >= 0
            /\ proxies[p].fail_count = applied[p].failures
            /\ proxies[p].latency = applied[p].latency

\* ------------------------------------------------ the forwarder's uses
\* The proxy the flow's upstream call goes through.
UsedProxy(r) == The(req[r].proxy_info).proxy_id

\* C35: an upstream call of the forwarder that fails adds 1 to the
\* fail_count of the proxy it went through, and one that succeeds leaves
\* that proxy's fail_count at 0.
C35_UseUpdatesHealth ==
    [][\A r \in Requests :
          /\ UpstreamFailedStep(r) =>
                proxies'[UsedProxy(r)].fail_count
                    = proxies[UsedProxy(r)].fail_count + 1
          /\ UpstreamSucceededStep(r) =>
                proxies'[UsedProxy(r)].fail_count = 0]_vars

\* ------------------------------------------------ one probe
\* One client's manual tests, the probe meeting any of the outcomes.
NextProbe ==
    \/ \E p \in TestedProxies : TestProxyById("c1", p, "pass")
    \/ WorkerStarts("route")
    \/ \E o \in ProbeOutcomes : ProbeReturns("route", "c1", o)
    \/ ProbeRaises("route", "c1")
    \/ TestReturns("c1")

SpecProbe == InitProber /\ [][NextProbe]_vars

\* The classes a result falls in.
Classes(result) ==
    {c \in {"success", "timeout", "proxy failure", "other error"} :
        \/ c = "success" /\ result.success
        \/ c = "timeout" /\ ~result.success
              /\ result.error = Some("Connection timeout")
        \/ c = "proxy failure" /\ ~result.success
              /\ result.error = Some("Proxy error")
        \/ c = "other error" /\ ~result.success
              /\ result.error \notin {Some("Connection timeout"),
                                      Some("Proxy error")}}

\* A response was observed: the result carries its status.
ResponseObserved(result) == result.status_code # None

\* C36: the result of a probe that ran falls in exactly one of the classes
\* success, timeout, proxy failure and other error, and carries a latency;
\* if a response was observed it is a success.
C36_ProbeClassified ==
    \A c \in Callers :
        futures["route"][c].state = "returned" =>
            LET result == The(futures["route"][c].result)
            IN /\ Cardinality(Classes(result)) = 1
               /\ result.latency # None
               /\ ResponseObserved(result) => result.success

\* ------------------------------------------------ the blacklist gate
\* The manager with one rule in its blacklist and two working proxies.
InitGate ==
    /\ ForwarderConstructed(CHOOSE s \in ForwarderSettings : TRUE,
                            "ForwarderAddon", {})
    /\ ManagerConstructed([p \in ProxyIds |->
                              [NewProxy EXCEPT !.is_working = p # 3]])
    /\ ProberConstructed(MaxWorkers)
    /\ CheckerConstructed(<<PatFacebook>>)
    /\ LimiterConstructed(1)

\* GET /proxy with and without a target_url from clients in different
\* request threads, and the rule routes changing the table.
NextGate ==
    \/ \E c \in Callers, url \in TargetUrls, enabled \in BOOLEAN :
          GetProxyForTarget(c, url, enabled, ConfiguredStrategy)
    \/ \E c \in Callers, table \in RuleTables : SetRules(c, table)
    \/ \E c \in Callers : LoadRebinds(c)
    \/ \E c \in Callers : LoadClears(c)
    \/ \E c \in Callers : LoadAppends(c)
    \/ \E c \in Callers : CheckStarts(c)
    \/ \E c \in Callers : CheckScans(c)
    \/ \E c \in Callers : SelectionReturns(c)

SpecGate == InitGate /\ [][NextGate]_vars

\* The rules that are in the table whatever is added or deleted.
LastingRules ==
    {r \in {PatFacebook, PatTwitter} :
        \A table \in RuleTables : \E i \in 1..Len(table) : table[i] = r}

\* The step in which c's check_url returns or raises.
CheckConcludes(c) == gating[c].pc = "scan" /\ gating'[c].pc = "idle"

\* C37: whatever other threads are loading, a check_url of a url that
\* matches a rule which is in the table throughout reports it blacklisted,
\* with the pattern of a rule that matches the url.
C37_ReaderSeesWholeList ==
    [][\A c \in Callers :
          (/\ CheckConcludes(c)
           /\ \E r \in LastingRules : Search(r, gating[c].url))
             => /\ gating'[c].response = "403"
                /\ Search(The(gating'[c].pattern), gating[c].url)]_vars

\* The url matches one of the rules.
Listed(rs, url) == \E i \in 1..Len(rs) : Search(rs[i], url)

\* C39: a GET /proxy whose target_url matches a rule of the blacklist it
\* read starts no selection, so that no proxy is marked used and the
\* round-robin counter stays, and it is answered 403.
C39_BlacklistedNeverSelects ==
    [][\A c \in Callers :
          (/\ gating[c].then = "check"
           /\ Listed(gating[c].rules, gating[c].url))
             => /\ selecting'[c] = selecting[c]
                /\ gating'[c].pc = "idle" => gating'[c].response = "403"]_vars

\* ------------------------------------------------ opportunistic refreshes
\* Two flows arriving while the cache is stale.
InitEnsureFreshTwice ==
    \E s \in SettingsDomain :
        /\ s.fallback_strategy = s.rotation_strategy
        /\ s.retry_count = 0
        /\ s.max_concurrent_requests = 1
        /\ s.require_user_jwt
        /\ s.default_user_jwt = ""
        /\ Constructed(s, "ForwarderAddon", Requests)

NextEnsureFreshTwice ==
    \/ \E r \in Requests : Request(r)
    \/ \E r \in Requests : AcquireSemaphore(r)
    \/ \E r \in Requests : GetProxyReturns(r)
    \/ \E r \in Requests : UpstreamReturns(r)
    \/ \E t \in RefreshCalls : FetchReturns(t)
    \/ \E t \in RefreshCalls : RefreshLocks(t)
    \/ \E t \in RefreshCalls : WritePatterns(t)
    \/ \E t \in RefreshCalls : WritePatternData(t)
    \/ \E t \in RefreshCalls : WriteLastRefresh(t)

SpecEnsureFreshTwice == InitEnsureFreshTwice /\ [][NextEnsureFreshTwice]_vars

\* The refresh() tasks ensure_fresh() created that have not ended.
Opportunistic ==
    {t \in RefreshCalls :
        refreshing[t].pc # "idle" /\ refreshing[t].by = "ensure_fresh"}

\* C38: at most one refresh started by ensure_fresh() is in flight.
C38_OneOpportunisticRefresh == Cardinality(Opportunistic) <= 1

\* ------------------------------------------------ the rate limit
InitLimiter ==
    \E n \in RateLimits :
        /\ ForwarderConstructed(CHOOSE s \in ForwarderSettings : TRUE,
                                "ForwarderAddon", {})
        /\ ManagerConstructed([p \in ProxyIds |-> NewProxy])
        /\ ProberConstructed(MaxWorkers)
        /\ CheckerConstructed(<<>>)
        /\ LimiterConstructed(n)

\* Requests of two users in two request threads as time goes by.
NextLimiter ==
    \/ ClockAdvances
    \/ \E c \in Callers, u \in Users : CheckRateLimit(c, u)
    \/ \E c \in Callers : LimiterReadsTime(c)
    \/ \E c \in Callers : LimiterDecides(c)

SpecLimiter == InitLimiter /\ [][NextLimiter]_vars

\* How many of user u's admitted requests fall in the 60 seconds from t on.
AdmittedFrom(u, t) ==
    Len(SelectSeq(admitted[u], LAMBDA ts : t <= ts /\ ts < t + Window))

\* The step is one of caller c's for user u.
LimiterStep(c, u) ==
    limiting'[c] # limiting[c]
        /\ (limiting[c].user_id = u \/ limiting'[c].user_id = u)

\* C40: no user has more than requests_per_minute requests admitted within
\* any 60 seconds; a request that is rejected leaves the limiter's record
\* as it was; a step taken for one user leaves the entries of the others,
\* as far as they still count for a window, as they were.
C40_SlidingWindowLimit ==
    /\ [](\A u \in Users : \A t \in 0..clock :
            AdmittedFrom(u, t) <= requests_per_minute)
    /\ [][\A c \in Callers :
             limiting'[c].response = "429" /\ limiting[c].pc = "lock"
                => user_requests' = user_requests]_vars
    /\ [][\A c \in Callers, u \in Users :
             LimiterStep(c, u) =>
                \A v \in Users \ {u} :
                    Since(user_requests'[v], clock - Window)
                        = Since(user_requests[v], clock - Window)]_vars

====
